---- MODULE Spec2Model ----
(***************************************************************************)
(* Event-to-state reconciliation of the CryptoCoven subgraph.              *)
(*                                                                         *)
(* Spec      : the handler pair of the current mappings                    *)
(*               handleTransfer  (src/mappings/covenToken.ts)              *)
(*               handleOpenSea   (src/mappings/transactions.ts)            *)
(*             over the entity store, with the helpers they import from    *)
(*             helpers/accountHelper.ts, helpers/transactionHelper.ts and  *)
(*             helpers/utils.ts.                                           *)
(* LedgerSpec: the account ledger of helpers/accountHelper.ts on one       *)
(*             in-memory Account (count update followed by                 *)
(*             classification, as both handlers call them).                *)
(* AggSpec   : the Transaction aggregator updateTransactionStatistics of   *)
(*             utils/accountHelper.ts applied to one Transaction record.   *)
(* ClassifierSpec: each account classifier of the repository applied once  *)
(*             to an Account holding a bounded counter triple.             *)
(* RegistrySpec: the token registry as each Transfer handler keys it       *)
(*             (global id, decimal id, hexadecimal id).                    *)
(* UtilsSpec : createTransfer and createOrdersMatched of                   *)
(*             utils/transactionHelper.ts with the helpers of              *)
(*             utils/accountHelper.ts and utils/tokenHelper.ts.            *)
(* Offset5Spec: the handleTransfer that returns early without a receipt    *)
(*             and looks for OrdersMatched five logs after its own.        *)
(* BalanceSpec: the account amount updaters updateAccountStatistics and    *)
(*             updateAccountHistory applied to one in-memory Account.      *)
(* IdSpec    : records saved under the global id txHash-logIndex, with     *)
(*             the hexadecimal and decimal renderings spelled out.         *)
(* SaleSpec  : handleTransfer and handleOpenSeaSale of the earlier         *)
(*             revision of mappings/transactions.ts, with handler aborts.  *)
(* ReceiptSpec: processTransactionReceipt and the receipt-based token-id   *)
(*             recoveries applied to receipts of up to MaxLogs logs.       *)
(* PriceSpec : the sale price helpers of helpers/utils.ts over a growing   *)
(*             list of prices.                                             *)
(***************************************************************************)
EXTENDS Integers, Sequences, FiniteSets, TLC

VARIABLES accounts, tokens, transactions, histories, log, acct, txn, prices,
          classifier

vars == <<accounts, tokens, transactions, histories, log, acct, txn, prices,
         classifier>>

storeVars == <<accounts, tokens, transactions, histories, log>>

(***************************************************************************)
(* Bounds                                                                  *)
(***************************************************************************)
\* number of events delivered to the handlers in one behaviour of Spec
MaxEvents == 2

\* largest value of a ledger counter in LedgerSpec
MaxCount == 3

\* number of sale prices applied to the Transaction of AggSpec
MaxSales == 4

\* value of classifier before any classifier has run
NoClassifier == "none"

(***************************************************************************)
(* Program constants                                                       *)
(***************************************************************************)
BIGINT_ZERO == 0

BIGINT_ONE == 1

ZERO_ADDRESS == 0

\* Bytes.empty(), the initial txHash of a new entity
EMPTY_BYTES == -1

\* a field of an entity that was never assigned
UNSET == -1

TRANSFER_EVENT_SIG == "Transfer(address,address,uint256)"

ORDERS_MATCHED_EVENT_SIG == "OrdersMatched(bytes32,bytes32,address,address,uint256,bytes32)"

\* contract addresses are numbered after the two user addresses: 3 stands for
\* 0x5180db8F5c931aaE63c74266b211F580155ecac8, 4 for the OpenSea exchange
\* 0x7f268357A8c2552623316e2562D90e642bB538E5
CRYPTOCOVEN_ADDRESS == 3

OPENSEA_ADDRESS == 4

\* an ERC-20 payment token; its Transfer logs carry the same topic0
ERC20_ADDRESS == 5

(***************************************************************************)
(* Generic helpers                                                         *)
(***************************************************************************)
EmptyMap == [x \in {} |-> 0]

Put(f, k, v) == [x \in (DOMAIN f) \cup {k} |-> IF x = k THEN v ELSE f[x]]

Max(a, b) == IF a > b THEN a ELSE b

Min(a, b) == IF a < b THEN a ELSE b

RECURSIVE Gcd(_, _)
Gcd(a, b) == IF b = 0 THEN a ELSE Gcd(b, a % b)

(***************************************************************************)
(* The chain: the transactions whose logs are delivered as events.         *)
(* A log is [logIndex, address, topics, data]; topics[1] is the event      *)
(* signature, the indexed arguments follow.  The CryptoCoven Transfer      *)
(* event indexes all three arguments, so its data payload is empty.        *)
(***************************************************************************)
\* an empty data payload: ethereum.decode fails on it
NO_DATA == -1

Addr1 == 1

Addr2 == 2

Token1 == 1

Token2 == 2

TransferLog(i, from, to, tokenId) ==
  [logIndex |-> i, address |-> CRYPTOCOVEN_ADDRESS,
   topics |-> <<TRANSFER_EVENT_SIG, from, to, tokenId>>, data |-> NO_DATA]

Erc20TransferLog(i, from, to, amount) ==
  [logIndex |-> i, address |-> ERC20_ADDRESS,
   topics |-> <<TRANSFER_EVENT_SIG, from, to>>, data |-> amount]

OrdersMatchedLog(i, maker, taker, price) ==
  [logIndex |-> i, address |-> OPENSEA_ADDRESS,
   topics |-> <<ORDERS_MATCHED_EVENT_SIG, maker, taker>>, data |-> price]

Chain ==
  << \* 1: mint of token 1 to Addr1
     <<TransferLog(0, ZERO_ADDRESS, Addr1, Token1)>>,
     \* 2: bare transfer of token 1 from Addr1 to Addr2
     <<TransferLog(3, Addr1, Addr2, Token1)>>,
     \* 3: single-item sale of token 1, Addr2 sells to Addr1 at price 2
     <<TransferLog(1, Addr2, Addr1, Token1),
       OrdersMatchedLog(2, Addr2, Addr1, 2)>>,
     \* 4: mint of token 2 to Addr1 in a transaction that also matches an order
     <<TransferLog(0, ZERO_ADDRESS, Addr1, Token2),
       OrdersMatchedLog(1, Addr2, Addr1, 1)>>,
     \* 5: batch sale of tokens 1 and 2, Addr1 sells to Addr2 at price 1
     <<TransferLog(4, Addr1, Addr2, Token1),
       TransferLog(5, Addr1, Addr2, Token2),
       OrdersMatchedLog(6, Addr1, Addr2, 1)>>,
     \* 6: sale of token 2 paid in an ERC-20 token, Addr2 sells to Addr1 at price 1
     <<Erc20TransferLog(0, Addr1, Addr2, 1),
       TransferLog(1, Addr2, Addr1, Token2),
       OrdersMatchedLog(2, Addr2, Addr1, 1)>>,
     \* 7: an order matched with maker = taker and no token transfer
     <<OrdersMatchedLog(0, Addr2, Addr2, 0)>>,
     \* 8: an order matched first, then an unrelated transfer of token 2
     <<OrdersMatchedLog(0, Addr1, Addr2, 1),
       TransferLog(1, Addr2, Addr1, Token2)>>
  >>

NoReceipt == [present |-> FALSE, logs |-> <<>>]

Receipt(h) == [present |-> TRUE, logs |-> Chain[h]]

IsTransferEventLog(l) ==
  l.address = CRYPTOCOVEN_ADDRESS /\ l.topics[1] = TRANSFER_EVENT_SIG

IsOrdersMatchedEventLog(l) ==
  l.address = OPENSEA_ADDRESS /\ l.topics[1] = ORDERS_MATCHED_EVENT_SIG

\* an event key: transaction hash, position of the log, receipt delivered or not
EventKeys ==
  {k \in (1..Len(Chain)) \X (1..3) \X BOOLEAN :
     /\ k[2] <= Len(Chain[k[1]])
     /\ \/ IsTransferEventLog(Chain[k[1]][k[2]])
        \/ IsOrdersMatchedEventLog(Chain[k[1]][k[2]])}

IsTransferKey(k) == IsTransferEventLog(Chain[k[1]][k[2]])

IsOrdersMatchedKey(k) == IsOrdersMatchedEventLog(Chain[k[1]][k[2]])

BlockNumber(h) == 100 + h

BlockTimestamp(h) == 1000 + h

\* the TransferEvent delivered for key k
TransferEvent(k) ==
  LET l == Chain[k[1]][k[2]] IN
  [from |-> l.topics[2], to |-> l.topics[3], tokenId |-> l.topics[4],
   logIndex |-> l.logIndex, txHash |-> k[1],
   blockNumber |-> BlockNumber(k[1]), blockTimestamp |-> BlockTimestamp(k[1]),
   receipt |-> IF k[3] THEN Receipt(k[1]) ELSE NoReceipt]

\* the OrdersMatchedEvent delivered for key k
OrdersMatchedEvent(k) ==
  LET l == Chain[k[1]][k[2]] IN
  [maker |-> l.topics[2], taker |-> l.topics[3], price |-> l.data,
   logIndex |-> l.logIndex, txHash |-> k[1],
   blockNumber |-> BlockNumber(k[1]), blockTimestamp |-> BlockTimestamp(k[1]),
   receipt |-> IF k[3] THEN Receipt(k[1]) ELSE NoReceipt]

(***************************************************************************)
(* Identity and key derivation                                             *)
(***************************************************************************)
\* Bytes.toHex() / BigInt.toHex(): the "0x"-prefixed hexadecimal string
toHex(b) == <<"0x", b>>

\* BigInt.toString(): the decimal string
toString(n) == <<"dec", n>>

getTransactionId(txHash, logIndex) == toHex(txHash) \o <<"-">> \o toString(logIndex)

(***************************************************************************)
(* Account ledger (helpers/accountHelper.ts)                               *)
(***************************************************************************)
NewAccount(id) ==
  [id |-> id,
   transactionCount |-> BIGINT_ZERO, mintCount |-> BIGINT_ZERO,
   buyCount |-> BIGINT_ZERO, saleCount |-> BIGINT_ZERO,
   totalAmountBought |-> BIGINT_ZERO, totalAmountSold |-> BIGINT_ZERO,
   totalAmountBalance |-> BIGINT_ZERO,
   isOG |-> FALSE, isCollector |-> FALSE, isHunter |-> FALSE,
   isFarmer |-> FALSE, isTrader |-> FALSE,
   logIndex |-> BIGINT_ZERO, txHash |-> EMPTY_BYTES,
   blockNumber |-> BIGINT_ZERO, blockTimestamp |-> BIGINT_ZERO]

\* Account.load(id), or a new zeroed Account that is not saved
loadOrCreateAccount(accs, accountId) ==
  IF toHex(accountId) \in DOMAIN accs
  THEN accs[toHex(accountId)]
  ELSE NewAccount(toHex(accountId))

\* updateTransactionCounts taking "TRANSFER" for the type of its third branch
updateTransactionCounts_TransferTwice(account, transactionType, isBuyer) ==
  LET a1 == IF transactionType = "MINT"
            THEN [account EXCEPT !.mintCount = @ + BIGINT_ONE]
            ELSE IF transactionType = "TRADE"
            THEN IF isBuyer
                 THEN [account EXCEPT !.buyCount = @ + BIGINT_ONE]
                 ELSE [account EXCEPT !.saleCount = @ + BIGINT_ONE]
            ELSE IF transactionType = "TRANSFER"
            THEN [account EXCEPT !.transactionCount = @ + BIGINT_ONE]
            ELSE account
  IN [a1 EXCEPT !.transactionCount = @ + BIGINT_ONE]

\* updateTransactionCounts taking a sale off the seller's saleCount
updateTransactionCounts_SaleDecrements(account, transactionType, isBuyer) ==
  LET a1 == IF transactionType = "MINT"
            THEN [account EXCEPT !.mintCount = @ + BIGINT_ONE]
            ELSE IF transactionType = "TRADE"
            THEN IF isBuyer
                 THEN [account EXCEPT !.buyCount = @ + BIGINT_ONE]
                 ELSE [account EXCEPT !.saleCount = @ - BIGINT_ONE]
            ELSE IF transactionType = "Transfer"
            THEN [account EXCEPT !.transactionCount = @ + BIGINT_ONE]
            ELSE account
  IN [a1 EXCEPT !.transactionCount = @ + BIGINT_ONE]

\* the in-memory account after the call; the trailing "account.save;" is a
\* property access, not a call, so nothing is written to the store
updateTransactionCounts(account, transactionType, isBuyer) ==
  LET a1 == IF transactionType = "MINT"
            THEN [account EXCEPT !.mintCount = @ + BIGINT_ONE]
            ELSE IF transactionType = "TRADE"
            THEN IF isBuyer
                 THEN [account EXCEPT !.buyCount = @ + BIGINT_ONE]
                 ELSE [account EXCEPT !.saleCount = @ + BIGINT_ONE]
            ELSE IF transactionType = "Transfer"
            THEN [account EXCEPT !.transactionCount = @ + BIGINT_ONE]
            ELSE account
  IN [a1 EXCEPT !.transactionCount = @ + BIGINT_ONE]

\* sets the flag of the first matching rule; no flag is ever cleared
updateAccountType(account) ==
  IF account.mintCount >= BIGINT_ONE /\ account.buyCount = BIGINT_ZERO
     /\ account.saleCount = BIGINT_ZERO
  THEN [account EXCEPT !.isOG = TRUE]
  ELSE IF account.mintCount >= BIGINT_ONE /\ account.buyCount >= BIGINT_ONE
          /\ account.saleCount = BIGINT_ZERO
  THEN [account EXCEPT !.isCollector = TRUE]
  ELSE IF account.mintCount >= BIGINT_ONE /\ account.saleCount >= BIGINT_ONE
          /\ account.buyCount = BIGINT_ZERO
  THEN [account EXCEPT !.isHunter = TRUE]
  ELSE IF account.mintCount >= BIGINT_ONE /\ account.saleCount >= BIGINT_ONE
          /\ account.buyCount >= BIGINT_ONE
  THEN [account EXCEPT !.isFarmer = TRUE]
  ELSE IF account.mintCount = BIGINT_ZERO /\ account.saleCount >= BIGINT_ONE
          /\ account.buyCount >= BIGINT_ONE
  THEN [account EXCEPT !.isTrader = TRUE]
  ELSE account

\* the name of the first flag that is set
determineAccountType(account) ==
  IF account.isOG THEN "OG"
  ELSE IF account.isCollector THEN "Collector"
  ELSE IF account.isHunter THEN "Hunter"
  ELSE IF account.isFarmer THEN "Farmer"
  ELSE IF account.isTrader THEN "Trader"
  ELSE "Unknown"

\* the AccountHistory store after the snapshot of account is saved
createAccountHistory(hist, account) ==
  LET historyId == account.id \o <<"-">> \o toString(account.transactionCount) IN
  Put(hist, historyId,
      [id |-> historyId, history |-> account.id, owner |-> account.id[2],
       mintCount |-> account.mintCount, buyCount |-> account.buyCount,
       saleCount |-> account.saleCount,
       logIndex |-> account.logIndex, txHash |-> account.txHash,
       blockNumber |-> account.blockNumber,
       blockTimestamp |-> account.blockTimestamp])

(***************************************************************************)
(* Token registry and log helpers (helpers/utils.ts)                       *)
(***************************************************************************)
\* the token store after the call and the entity it returns
createOrUpdateCovenToken(toks, tokenId) ==
  LET id == toHex(tokenId)
      token == IF id \in DOMAIN toks THEN toks[id]
               ELSE [id |-> id, tokenId |-> toHex(tokenId),
                     tokenMintCount |-> BIGINT_ZERO, owner |-> UNSET,
                     logIndex |-> BIGINT_ZERO, txHash |-> EMPTY_BYTES,
                     blockNumber |-> BIGINT_ZERO, blockTimestamp |-> BIGINT_ZERO]
  IN [tokens |-> Put(toks, id, token), token |-> token]

\* ethereum.decode("uint256", data): null on an empty payload
decodeUint256(data) == IF data = NO_DATA THEN UNSET ELSE data

\* index of the first log at or after position i satisfying P, 0 when none
RECURSIVE FirstOrdersMatched(_, _)
FirstOrdersMatched(logs, i) ==
  IF i > Len(logs) THEN 0
  ELSE IF Len(logs[i].topics) > 0 /\ logs[i].topics[1] = ORDERS_MATCHED_EVENT_SIG
  THEN i
  ELSE FirstOrdersMatched(logs, i + 1)

checkForOrdersMatched(event) ==
  IF ~event.receipt.present THEN FALSE
  ELSE FirstOrdersMatched(event.receipt.logs, 1) # 0

\* the second loop of extractTokenIdFromLogs, from position i
RECURSIVE FirstTransferTokenId(_, _, _)
FirstTransferTokenId(logs, ordersMatchedIndex, i) ==
  IF i > Len(logs) THEN UNSET
  ELSE IF i # ordersMatchedIndex
          /\ Len(logs[i].topics) > 0 /\ logs[i].topics[1] = TRANSFER_EVENT_SIG
          /\ decodeUint256(logs[i].data) # UNSET
  THEN decodeUint256(logs[i].data)
  ELSE FirstTransferTokenId(logs, ordersMatchedIndex, i + 1)

\* the token id, or UNSET for null
extractTokenIdFromLogs(event) ==
  IF ~event.receipt.present THEN UNSET
  ELSE LET logs == event.receipt.logs
           ordersMatchedIndex == FirstOrdersMatched(logs, 1)
       IN IF ordersMatchedIndex # 0
          THEN FirstTransferTokenId(logs, ordersMatchedIndex, 1)
          ELSE UNSET

\* a BigDecimal, kept as a reduced fraction <<numerator, denominator>>
BigDecimal(n, d) == LET g == Gcd(n, d) IN IF g = 0 THEN <<0, 1>> ELSE <<n \div g, d \div g>>

BIGDECIMAL_ZERO == <<0, 1>>

calculateAverageSalePrice(totalSalesVolume, totalSalesCount) ==
  IF totalSalesCount = BIGINT_ZERO THEN BIGDECIMAL_ZERO
  ELSE BigDecimal(totalSalesVolume, totalSalesCount)

calculateHighestSalePrice(currentPrice, previousHighestPrice) ==
  IF previousHighestPrice = UNSET THEN currentPrice
  ELSE IF currentPrice > previousHighestPrice THEN currentPrice
  ELSE previousHighestPrice

calculateLowestSalePrice(currentPrice, previousLowestPrice) ==
  IF previousLowestPrice = UNSET THEN currentPrice
  ELSE IF currentPrice < previousLowestPrice THEN currentPrice
  ELSE previousLowestPrice

(***************************************************************************)
(* Transaction records (helpers/transactionHelper.ts)                      *)
(***************************************************************************)
\* the transaction store after the call and the entity it returns; every
\* aggregate is reset whether or not the record existed
createOrUpdateTransaction(txs, event) ==
  LET id == getTransactionId(event.txHash, event.logIndex)
      t0 == IF id \in DOMAIN txs THEN txs[id]
            ELSE [id |-> id, transactionType |-> "UNSET"]
      t1 == [id |-> id, transactionType |-> t0.transactionType,
             txHash |-> event.txHash, logIndex |-> event.logIndex,
             blockNumber |-> event.blockNumber,
             blockTimestamp |-> event.blockTimestamp,
             account |-> id, referenceId |-> <<>>,
             buyer |-> EMPTY_BYTES, seller |-> EMPTY_BYTES,
             nftSalePrice |-> BIGINT_ZERO, totalNFTsSold |-> BIGINT_ZERO,
             totalSalesVolume |-> BIGINT_ZERO,
             averageSalePrice |-> BIGDECIMAL_ZERO,
             totalSalesCount |-> BIGINT_ZERO,
             highestSalePrice |-> BIGINT_ZERO, lowestSalePrice |-> BIGINT_ZERO]
  IN [transactions |-> Put(txs, id, t1), transaction |-> t1]

(***************************************************************************)
(* handleTransfer (mappings/covenToken.ts)                                 *)
(***************************************************************************)
\* Step 6 with the receipt consulted before the zero address
transactionTypeOf_OrdersMatchedFirst(event) ==
  IF checkForOrdersMatched(event) THEN "TRADE"
  ELSE IF event.from = ZERO_ADDRESS THEN "MINT"
  ELSE "TRANSFER"

\* the classification computed in Step 6
transactionTypeOf(event) ==
  IF event.from = ZERO_ADDRESS THEN "MINT"
  ELSE IF checkForOrdersMatched(event) THEN "TRADE"
  ELSE "TRANSFER"

\* the store after handleTransfer(event) returns
handleTransferStore(st, event) ==
  LET fromAccount0 == loadOrCreateAccount(st.accounts, event.from)
      toAccount0 == loadOrCreateAccount(st.accounts, event.to)
      fromAccount1 == [fromAccount0 EXCEPT !.logIndex = event.logIndex,
                         !.txHash = event.txHash,
                         !.blockNumber = event.blockNumber,
                         !.blockTimestamp = event.blockTimestamp]
      toAccount1 == [toAccount0 EXCEPT !.logIndex = event.logIndex,
                       !.txHash = event.txHash,
                       !.blockNumber = event.blockNumber,
                       !.blockTimestamp = event.blockTimestamp]
      created == createOrUpdateCovenToken(st.tokens, event.tokenId)
      token == [created.token EXCEPT !.logIndex = event.logIndex,
                  !.txHash = event.txHash,
                  !.blockNumber = event.blockNumber,
                  !.blockTimestamp = event.blockTimestamp,
                  !.owner = event.to]
      tokens1 == Put(created.tokens, token.id, token)
      transactionType == transactionTypeOf(event)
      fromAccount2 == IF transactionType = "MINT" THEN fromAccount1
                      ELSE updateTransactionCounts(fromAccount1, transactionType, FALSE)
      toAccount2 == updateTransactionCounts(toAccount1, transactionType, FALSE)
      fromAccount3 == updateAccountType(fromAccount2)
      toAccount3 == updateAccountType(toAccount2)
      histories1 == createAccountHistory(st.histories, fromAccount3)
      histories2 == createAccountHistory(histories1, toAccount3)
  IN [accounts |-> st.accounts, tokens |-> tokens1,
      transactions |-> st.transactions, histories |-> histories2]

(***************************************************************************)
(* handleOpenSea (mappings/transactions.ts)                                *)
(***************************************************************************)
\* the store after handleOpenSea(event) returns
handleOpenSeaStore(st, event) ==
  LET buyerAccount0 == loadOrCreateAccount(st.accounts, event.taker)
      sellerAccount0 == loadOrCreateAccount(st.accounts, event.maker)
      created == createOrUpdateTransaction(st.transactions, event)
      transaction0 == created.transaction
      tokenIdfromReceipt == extractTokenIdFromLogs(event)
      \* Steps 3-6
      ct == createOrUpdateCovenToken(st.tokens, tokenIdfromReceipt)
      covenToken == [ct.token EXCEPT !.owner = event.taker]
      tokens1 == IF tokenIdfromReceipt # UNSET
                 THEN Put(ct.tokens, covenToken.id, covenToken)
                 ELSE st.tokens
      transaction1 == IF tokenIdfromReceipt # UNSET
                      THEN [transaction0 EXCEPT !.referenceId = toHex(tokenIdfromReceipt)]
                      ELSE transaction0
      \* Step 7
      salePrice == event.price
      previousHighestSalePrice == transaction1.highestSalePrice
      previousLowestSalePrice == transaction1.lowestSalePrice
      totalSalesVolume == salePrice * transaction1.totalNFTsSold
      transaction2 == [transaction1 EXCEPT
                         !.nftSalePrice = salePrice,
                         !.totalNFTsSold = BIGINT_ONE,
                         !.totalSalesVolume = totalSalesVolume,
                         !.highestSalePrice =
                            calculateHighestSalePrice(salePrice, previousHighestSalePrice),
                         !.lowestSalePrice =
                            calculateLowestSalePrice(salePrice, previousLowestSalePrice),
                         !.averageSalePrice =
                            calculateAverageSalePrice(totalSalesVolume, salePrice),
                         !.logIndex = event.logIndex,
                         !.txHash = event.txHash,
                         !.blockNumber = event.blockNumber,
                         !.blockTimestamp = event.blockTimestamp]
      transactions1 == Put(created.transactions, transaction2.id, transaction2)
      \* Step 8
      buyerAccount1 == [buyerAccount0 EXCEPT !.logIndex = event.logIndex,
                          !.txHash = event.txHash,
                          !.blockNumber = event.blockNumber,
                          !.blockTimestamp = event.blockTimestamp]
      sellerAccount1 == [sellerAccount0 EXCEPT !.logIndex = event.logIndex,
                           !.txHash = event.txHash,
                           !.blockNumber = event.blockNumber,
                           !.blockTimestamp = event.blockTimestamp]
      \* Steps 9-10
      buyerAccount2 == updateAccountType(updateTransactionCounts(buyerAccount1, "TRADE", FALSE))
      sellerAccount2 == updateAccountType(updateTransactionCounts(sellerAccount1, "TRADE", FALSE))
      histories1 == createAccountHistory(st.histories, buyerAccount2)
      histories2 == createAccountHistory(histories1, sellerAccount2)
      accounts1 == Put(st.accounts, buyerAccount2.id, buyerAccount2)
      accounts2 == Put(accounts1, sellerAccount2.id, sellerAccount2)
  IN [accounts |-> accounts2, tokens |-> tokens1,
      transactions |-> transactions1, histories |-> histories2]

(***************************************************************************)
(* The handlers as actions over the store                                  *)
(***************************************************************************)
Store == [accounts |-> accounts, tokens |-> tokens,
          transactions |-> transactions, histories |-> histories]

EmptyStore == [accounts |-> EmptyMap, tokens |-> EmptyMap,
               transactions |-> EmptyMap, histories |-> EmptyMap]

\* the store after the event of key k is handled
HandleEvent(st, k) ==
  IF IsTransferKey(k) THEN handleTransferStore(st, TransferEvent(k))
  ELSE handleOpenSeaStore(st, OrdersMatchedEvent(k))

ZeroTransaction ==
  [totalSalesVolume |-> BIGINT_ZERO, totalSalesCount |-> BIGINT_ZERO,
   highestSalePrice |-> BIGINT_ZERO, lowestSalePrice |-> BIGINT_ZERO,
   averageSalePrice |-> BIGINT_ZERO]

Init ==
  /\ accounts = EmptyMap
  /\ tokens = EmptyMap
  /\ transactions = EmptyMap
  /\ histories = EmptyMap
  /\ log = <<>>
  /\ acct = NewAccount(toHex(Addr1))
  /\ txn = ZeroTransaction
  /\ prices = <<>>
  /\ classifier = NoClassifier

handleTransfer(k) ==
  /\ Len(log) < MaxEvents
  /\ IsTransferKey(k)
  /\ LET st == handleTransferStore(Store, TransferEvent(k)) IN
       /\ accounts' = st.accounts
       /\ tokens' = st.tokens
       /\ transactions' = st.transactions
       /\ histories' = st.histories
  /\ log' = Append(log, k)
  /\ UNCHANGED <<acct, txn, prices, classifier>>

handleOpenSea(k) ==
  /\ Len(log) < MaxEvents
  /\ IsOrdersMatchedKey(k)
  /\ LET st == handleOpenSeaStore(Store, OrdersMatchedEvent(k)) IN
       /\ accounts' = st.accounts
       /\ tokens' = st.tokens
       /\ transactions' = st.transactions
       /\ histories' = st.histories
  /\ log' = Append(log, k)
  /\ UNCHANGED <<acct, txn, prices, classifier>>

Next ==
  \/ \E k \in EventKeys : handleTransfer(k)
  \/ \E k \in EventKeys : handleOpenSea(k)

Spec == Init /\ [][Next]_vars

(***************************************************************************)
(* LedgerSpec: one Account through the ledger of helpers/accountHelper.ts. *)
(* Each step is what a handler does to an account it touches: the count    *)
(* update for the transaction type, then the classification.               *)
(***************************************************************************)
TransactionTypes == {"MINT", "TRADE", "TRANSFER"}

LedgerInit ==
  /\ accounts = EmptyMap
  /\ tokens = EmptyMap
  /\ transactions = EmptyMap
  /\ histories = EmptyMap
  /\ log = <<>>
  /\ acct = loadOrCreateAccount(EmptyMap, Addr1)
  /\ txn = ZeroTransaction
  /\ prices = <<>>
  /\ classifier = NoClassifier

applyTransaction(transactionType, isBuyer) ==
  /\ acct.transactionCount < 2 * MaxCount
  /\ acct.mintCount < MaxCount \/ transactionType # "MINT"
  /\ acct.buyCount < MaxCount \/ ~(transactionType = "TRADE" /\ isBuyer)
  /\ acct.saleCount < MaxCount \/ ~(transactionType = "TRADE" /\ ~isBuyer)
  /\ acct' = updateAccountType(updateTransactionCounts(acct, transactionType, isBuyer))
  /\ UNCHANGED <<storeVars, txn, prices, classifier>>

LedgerNext == \E t \in TransactionTypes, b \in BOOLEAN : applyTransaction(t, b)

LedgerSpec == LedgerInit /\ [][LedgerNext]_vars

(***************************************************************************)
(* AggSpec: the Transaction aggregator (utils/accountHelper.ts) applied to *)
(* one Transaction record whose aggregates start at zero.                  *)
(***************************************************************************)
SalePrices == {0, 10, 20, 30}

\* "x || BIGINT_ZERO": the field, or zero when it is null
OrZero(x) == IF x = UNSET THEN BIGINT_ZERO ELSE x

\* updateTransactionStatistics averaging before the count is incremented
updateTransactionStatistics_StaleCount(transaction, salePrice) ==
  LET t1 == [transaction EXCEPT !.totalSalesVolume = OrZero(@) + salePrice]
      t2 == IF salePrice > OrZero(t1.highestSalePrice)
            THEN [t1 EXCEPT !.highestSalePrice = salePrice]
            ELSE t1
      t3 == IF \/ salePrice < OrZero(t2.lowestSalePrice)
               \/ OrZero(t2.lowestSalePrice) = BIGINT_ZERO
            THEN [t2 EXCEPT !.lowestSalePrice = salePrice]
            ELSE t2
      t4 == IF t3.totalSalesCount > BIGINT_ZERO
            THEN [t3 EXCEPT !.averageSalePrice = t3.totalSalesVolume \div t3.totalSalesCount]
            ELSE t3
  IN [t4 EXCEPT !.totalSalesCount = OrZero(@) + BIGINT_ONE]

updateTransactionStatistics(transaction, salePrice) ==
  LET t1 == [transaction EXCEPT
               !.totalSalesVolume = OrZero(@) + salePrice,
               !.totalSalesCount = OrZero(@) + BIGINT_ONE]
      t2 == IF salePrice > OrZero(t1.highestSalePrice)
            THEN [t1 EXCEPT !.highestSalePrice = salePrice]
            ELSE t1
      t3 == IF \/ salePrice < OrZero(t2.lowestSalePrice)
               \/ OrZero(t2.lowestSalePrice) = BIGINT_ZERO
            THEN [t2 EXCEPT !.lowestSalePrice = salePrice]
            ELSE t2
  IN IF t3.totalSalesCount > BIGINT_ZERO
     THEN [t3 EXCEPT !.averageSalePrice = t3.totalSalesVolume \div t3.totalSalesCount]
     ELSE t3

AggInit ==
  /\ accounts = EmptyMap
  /\ tokens = EmptyMap
  /\ transactions = EmptyMap
  /\ histories = EmptyMap
  /\ log = <<>>
  /\ acct = loadOrCreateAccount(EmptyMap, Addr1)
  /\ txn = ZeroTransaction
  /\ prices = <<>>
  /\ classifier = NoClassifier

applySale(salePrice) ==
  /\ Len(prices) < MaxSales
  /\ txn' = updateTransactionStatistics(txn, salePrice)
  /\ prices' = Append(prices, salePrice)
  /\ UNCHANGED <<storeVars, acct, classifier>>

AggNext == \E p \in SalePrices : applySale(p)

AggSpec == AggInit /\ [][AggNext]_vars

(***************************************************************************)
(* ClassifierSpec: the classifiers as functions of the counter triple.     *)
(***************************************************************************)
\* utils/accountHelper.ts: every flag assigned from its own condition
updateAccountTypes(account) ==
  LET mintCount == account.mintCount
      buyCount == account.buyCount
      saleCount == account.saleCount
  IN [account EXCEPT
        !.isOG = mintCount > BIGINT_ZERO /\ buyCount = BIGINT_ZERO
                 /\ saleCount = BIGINT_ZERO,
        !.isCollector = (mintCount > BIGINT_ZERO \/ buyCount > BIGINT_ZERO)
                        /\ saleCount = BIGINT_ZERO,
        !.isHunter = mintCount > BIGINT_ZERO /\ buyCount = BIGINT_ZERO
                     /\ saleCount > BIGINT_ZERO,
        !.isFarmer = mintCount > BIGINT_ZERO /\ buyCount > BIGINT_ZERO
                     /\ saleCount > BIGINT_ZERO,
        !.isTrader = mintCount = BIGINT_ZERO
                     /\ (buyCount > BIGINT_ZERO \/ saleCount > BIGINT_ZERO)]

\* utils/tokenHelper.ts updateAccountType: else-if chain, each branch sets
\* its flag and clears only the flags it names
tokenHelper_updateAccountType(account) ==
  IF account.mintCount > BIGINT_ZERO /\ account.buyCount = 0 /\ account.saleCount = 0
  THEN [account EXCEPT !.isOG = TRUE, !.isCollector = FALSE, !.isHunter = FALSE,
                       !.isFarmer = FALSE, !.isTrader = FALSE]
  ELSE IF account.mintCount > BIGINT_ZERO /\ account.buyCount > BIGINT_ZERO
  THEN [account EXCEPT !.isCollector = TRUE, !.isOG = FALSE]
  ELSE IF account.mintCount > BIGINT_ZERO /\ account.saleCount > BIGINT_ZERO
          /\ account.buyCount = 0
  THEN [account EXCEPT !.isHunter = TRUE, !.isCollector = FALSE, !.isOG = FALSE]
  ELSE IF account.mintCount > BIGINT_ZERO /\ account.saleCount > BIGINT_ZERO
          /\ account.buyCount > BIGINT_ZERO
  THEN [account EXCEPT !.isFarmer = TRUE, !.isHunter = FALSE,
                       !.isCollector = FALSE, !.isOG = FALSE]
  ELSE IF account.mintCount = 0 /\ account.buyCount > BIGINT_ZERO
          /\ account.saleCount > BIGINT_ZERO
  THEN [account EXCEPT !.isTrader = TRUE, !.isFarmer = FALSE, !.isHunter = FALSE,
                       !.isCollector = FALSE, !.isOG = FALSE]
  ELSE account

\* the five flags with exactly the flag named by category set
WithCategory(account, category) ==
  [account EXCEPT !.isOG = (category = "OG"),
                  !.isCollector = (category = "Collector"),
                  !.isHunter = (category = "Hunter"),
                  !.isFarmer = (category = "Farmer"),
                  !.isTrader = (category = "Trader")]

\* utils/tokenHelper.ts determineAccountType(account): Account; every branch
\* assigns all five flags
tokenHelper_determineAccountType(account) ==
  IF account.mintCount >= BIGINT_ONE /\ account.buyCount = BIGINT_ZERO
     /\ account.saleCount = BIGINT_ZERO
  THEN WithCategory(account, "OG")
  ELSE IF account.mintCount >= BIGINT_ONE /\ account.buyCount >= BIGINT_ONE
          /\ account.saleCount = BIGINT_ZERO
  THEN WithCategory(account, "Collector")
  ELSE IF account.mintCount >= BIGINT_ONE /\ account.saleCount >= BIGINT_ONE
          /\ account.buyCount = BIGINT_ZERO
  THEN WithCategory(account, "Hunter")
  ELSE IF account.mintCount >= BIGINT_ONE /\ account.saleCount >= BIGINT_ONE
          /\ account.buyCount >= BIGINT_ONE
  THEN WithCategory(account, "Farmer")
  ELSE IF account.mintCount = BIGINT_ZERO /\ account.saleCount >= BIGINT_ONE
          /\ account.buyCount >= BIGINT_ONE
  THEN WithCategory(account, "Trader")
  ELSE WithCategory(account, "none")

\* an Account as loadOrCreateAccount makes it, holding the counter triple
AccountWith(mintCount, buyCount, saleCount) ==
  [NewAccount(toHex(Addr1)) EXCEPT
     !.mintCount = mintCount, !.buyCount = buyCount, !.saleCount = saleCount,
     !.transactionCount = mintCount + buyCount + saleCount]

ClassifierInit ==
  /\ accounts = EmptyMap
  /\ tokens = EmptyMap
  /\ transactions = EmptyMap
  /\ histories = EmptyMap
  /\ log = <<>>
  /\ txn = ZeroTransaction
  /\ prices = <<>>
  /\ classifier = NoClassifier
  /\ \E m \in 0..MaxCount, b \in 0..MaxCount, s \in 0..MaxCount :
       acct = AccountWith(m, b, s)

runUpdateAccountTypes ==
  /\ classifier = NoClassifier
  /\ acct' = updateAccountTypes(acct)
  /\ classifier' = "utils/accountHelper.updateAccountTypes"
  /\ UNCHANGED <<storeVars, txn, prices>>

runUpdateAccountType ==
  /\ classifier = NoClassifier
  /\ acct' = updateAccountType(acct)
  /\ classifier' = "helpers/accountHelper.updateAccountType"
  /\ UNCHANGED <<storeVars, txn, prices>>

runTokenHelperUpdateAccountType ==
  /\ classifier = NoClassifier
  /\ acct' = tokenHelper_updateAccountType(acct)
  /\ classifier' = "utils/tokenHelper.updateAccountType"
  /\ UNCHANGED <<storeVars, txn, prices>>

runTokenHelperDetermineAccountType ==
  /\ classifier = NoClassifier
  /\ acct' = tokenHelper_determineAccountType(acct)
  /\ classifier' = "utils/tokenHelper.determineAccountType"
  /\ UNCHANGED <<storeVars, txn, prices>>

ClassifierNext ==
  \/ runUpdateAccountTypes
  \/ runUpdateAccountType
  \/ runTokenHelperUpdateAccountType
  \/ runTokenHelperDetermineAccountType

ClassifierSpec == ClassifierInit /\ [][ClassifierNext]_vars

(***************************************************************************)
(* Derived views used by the properties                                    *)
(***************************************************************************)
Front(seq) == SubSeq(seq, 1, Len(seq) - 1)

Last(seq) == seq[Len(seq)]

\* the store after the events of seq are handled in order, from empty
RECURSIVE StoreAfter(_)
StoreAfter(seq) ==
  IF seq = <<>> THEN EmptyStore
  ELSE HandleEvent(StoreAfter(Front(seq)), Last(seq))

\* a stored counter of the account of address a, zero when none is stored
Counter(st, a, field) ==
  IF toHex(a) \in DOMAIN st.accounts THEN st.accounts[toHex(a)][field] ELSE 0

Addresses == {ZERO_ADDRESS, Addr1, Addr2}

AccountCounters(st) ==
  [a \in Addresses |->
     [f \in {"mintCount", "buyCount", "saleCount", "transactionCount",
             "totalAmountBought", "totalAmountSold", "totalAmountBalance"} |->
        Counter(st, a, f)]]

TokenOwners(st) == [id \in DOMAIN st.tokens |-> st.tokens[id].owner]

TransactionAggregates(st) ==
  [id \in DOMAIN st.transactions |->
     <<st.transactions[id].totalSalesVolume, st.transactions[id].totalSalesCount,
       st.transactions[id].highestSalePrice, st.transactions[id].lowestSalePrice,
       st.transactions[id].averageSalePrice, st.transactions[id].totalNFTsSold>>]

\* the last event handled is a Transfer whose from is the zero address
LastIsMint ==
  /\ log # <<>>
  /\ IsTransferKey(Last(log))
  /\ TransferEvent(Last(log)).from = ZERO_ADDRESS

\* positions of the CryptoCoven Transfer logs / OrdersMatched logs of transaction h
TransferPositions(h) == {j \in 1..Len(Chain[h]) : IsTransferEventLog(Chain[h][j])}

OrdersMatchedPositions(h) == {j \in 1..Len(Chain[h]) : IsOrdersMatchedEventLog(Chain[h][j])}

\* h is a single-item marketplace sale: one Transfer X->Y with X not zero,
\* followed by one OrdersMatched whose maker is X and taker is Y
IsSingleSale(h) ==
  /\ Cardinality(TransferPositions(h)) = 1
  /\ Cardinality(OrdersMatchedPositions(h)) = 1
  /\ LET j == CHOOSE x \in TransferPositions(h) : TRUE
         o == CHOOSE x \in OrdersMatchedPositions(h) : TRUE
     IN /\ j < o
        /\ Chain[h][j].topics[2] # ZERO_ADDRESS
        /\ Chain[h][o].topics[2] = Chain[h][j].topics[2]
        /\ Chain[h][o].topics[3] = Chain[h][j].topics[3]

\* the last two events handled are the Transfer and then the OrdersMatched
\* of one single-item sale
LastTwoAreSingleSale ==
  /\ Len(log) >= 2
  /\ LET t == log[Len(log) - 1]
         o == log[Len(log)]
     IN /\ t[1] = o[1]
        /\ IsSingleSale(t[1])
        /\ IsTransferKey(t)
        /\ IsOrdersMatchedKey(o)

StoreBeforeLastTwo == StoreAfter(SubSeq(log, 1, Len(log) - 2))

SaleTransfer == TransferEvent(log[Len(log) - 1])

SaleOrder == OrdersMatchedEvent(log[Len(log)])

(***************************************************************************)
(* C1 - idempotence.  Replaying the identical event (same txHash and       *)
(* logIndex) leaves every Account counter, every Token owner and every     *)
(* Transaction aggregate as it was after the first application.            *)
(***************************************************************************)
C1_ReplayIsIdempotent ==
  (Len(log) >= 2 /\ log[Len(log)] = log[Len(log) - 1]) =>
     LET once == StoreAfter(Front(log)) IN
       /\ AccountCounters(Store) = AccountCounters(once)
       /\ TokenOwners(Store) = TokenOwners(once)
       /\ TransactionAggregates(Store) = TransactionAggregates(once)

(***************************************************************************)
(* C2 - mint classification.  A Transfer whose from is the zero address is *)
(* classified MINT, the stored mintCount of its to account is one greater  *)
(* than before, and every other mint, buy and sale counter is unchanged.   *)
(***************************************************************************)
C2_MintIncrementsStoredMintCount ==
  LastIsMint =>
     LET before == StoreAfter(Front(log))
         e == TransferEvent(Last(log))
     IN /\ transactionTypeOf(e) = "MINT"
        /\ Counter(Store, e.to, "mintCount") = Counter(before, e.to, "mintCount") + 1
        /\ \A a \in Addresses, f \in {"mintCount", "buyCount", "saleCount"} :
             (a # e.to \/ f # "mintCount") =>
                Counter(Store, a, f) = Counter(before, a, f)

(***************************************************************************)
(* C3 - only mints count as mints.  A Transfer whose from is not the zero  *)
(* address is never classified MINT, and the stored mintCount of every     *)
(* account equals the number of zero-from Transfers delivered to it.       *)
(***************************************************************************)
MintsDeliveredTo(a) ==
  Cardinality({i \in 1..Len(log) :
                 /\ IsTransferKey(log[i])
                 /\ TransferEvent(log[i]).from = ZERO_ADDRESS
                 /\ TransferEvent(log[i]).to = a})

C3_MintCountIsMintsDelivered ==
  /\ \A i \in 1..Len(log) :
        (IsTransferKey(log[i]) /\ TransferEvent(log[i]).from # ZERO_ADDRESS) =>
           transactionTypeOf(TransferEvent(log[i])) # "MINT"
  /\ \A a \in Addresses : Counter(Store, a, "mintCount") = MintsDeliveredTo(a)

(***************************************************************************)
(* C4 - single-item sale.  After the Transfer X->Y and the OrdersMatched   *)
(* at price p of one single-item sale: X.saleCount and Y.buyCount are each *)
(* one greater, X.totalAmountSold and Y.totalAmountBought are each p       *)
(* greater, X.buyCount and Y.saleCount are unchanged, the token is Y's.    *)
(***************************************************************************)
C4_SingleSaleCounters ==
  LastTwoAreSingleSale =>
     LET before == StoreBeforeLastTwo
         X == SaleTransfer.from
         Y == SaleTransfer.to
         p == SaleOrder.price
     IN /\ Counter(Store, X, "saleCount") = Counter(before, X, "saleCount") + 1
        /\ Counter(Store, Y, "buyCount") = Counter(before, Y, "buyCount") + 1
        /\ Counter(Store, X, "totalAmountSold") = Counter(before, X, "totalAmountSold") + p
        /\ Counter(Store, Y, "totalAmountBought") = Counter(before, Y, "totalAmountBought") + p
        /\ Counter(Store, X, "buyCount") = Counter(before, X, "buyCount")
        /\ Counter(Store, Y, "saleCount") = Counter(before, Y, "saleCount")
        /\ tokens[toHex(SaleTransfer.tokenId)].owner = Y

(***************************************************************************)
(* C5 - trade correlation.  After the Transfer and the OrdersMatched of    *)
(* one single-item sale there is exactly one Transaction record of that    *)
(* transaction; its type is TRADE, its nftSalePrice is the matched price   *)
(* and its referenceId is the Transfer's token id.                         *)
(***************************************************************************)
TransactionsOf(h) == {id \in DOMAIN transactions : transactions[id].txHash = h}

C5_OneTradeRecord ==
  LastTwoAreSingleSale =>
     /\ Cardinality(TransactionsOf(SaleOrder.txHash)) = 1
     /\ \A id \in TransactionsOf(SaleOrder.txHash) :
          /\ transactions[id].transactionType = "TRADE"
          /\ transactions[id].nftSalePrice = SaleOrder.price
          /\ transactions[id].referenceId = toHex(SaleTransfer.tokenId)

(***************************************************************************)
(* Views of the single Account and Transaction record                      *)
(***************************************************************************)
Flags == {"isOG", "isCollector", "isHunter", "isFarmer", "isTrader"}

\* the flags of the account that are true
FlagsSet(account) == {f \in Flags : account[f]}

ClearFlags(account) == WithCategory(account, "none")

\* the first-match-wins table of the classifier, as a set of flags
FirstMatchTable(mint, buy, sale) ==
  IF mint > 0 /\ buy = 0 /\ sale = 0 THEN {"isOG"}
  ELSE IF (mint > 0 \/ buy > 0) /\ sale = 0 THEN {"isCollector"}
  ELSE IF mint > 0 /\ buy = 0 /\ sale > 0 THEN {"isHunter"}
  ELSE IF mint > 0 /\ buy > 0 /\ sale > 0 THEN {"isFarmer"}
  ELSE IF mint = 0 /\ (buy > 0 \/ sale > 0) THEN {"isTrader"}
  ELSE {}

RECURSIVE SumOf(_)
SumOf(seq) == IF seq = <<>> THEN 0 ELSE SumOf(Front(seq)) + Last(seq)

MaxOf(seq) == CHOOSE x \in {seq[i] : i \in 1..Len(seq)} :
                 \A i \in 1..Len(seq) : seq[i] <= x

MinOf(seq) == CHOOSE x \in {seq[i] : i \in 1..Len(seq)} :
                 \A i \in 1..Len(seq) : x <= seq[i]

\* the prices of the OrdersMatched events handled for Transaction id, in order
PricesOf(id) ==
  LET idx == {i \in 1..Len(log) :
                /\ IsOrdersMatchedKey(log[i])
                /\ getTransactionId(OrdersMatchedEvent(log[i]).txHash,
                                    OrdersMatchedEvent(log[i]).logIndex) = id}
      RECURSIVE Pick(_)
      Pick(n) == IF n = 0 THEN <<>>
                 ELSE IF n \in idx
                      THEN Append(Pick(n - 1), OrdersMatchedEvent(log[n]).price)
                      ELSE Pick(n - 1)
  IN Pick(Len(log))

(***************************************************************************)
(* C6 - classification exclusivity.  For every (mintCount, buyCount,       *)
(* saleCount) triple, after the account classifier has run at most one of  *)
(* isOG, isCollector, isHunter, isFarmer, isTrader is true.                *)
(***************************************************************************)
C6_AtMostOneFlag ==
  classifier # NoClassifier => Cardinality(FlagsSet(acct)) <= 1

(***************************************************************************)
(* C7 - flags are recomputed from scratch.  After any sequence of ledger   *)
(* updates the five flags of the account are exactly the classifier        *)
(* applied to the current (mintCount, buyCount, saleCount): a flag set     *)
(* under an earlier triple does not stay set once its rule fails.          *)
(***************************************************************************)
C7_FlagsAreFunctionOfCounters ==
  FlagsSet(acct) = FlagsSet(updateAccountType(ClearFlags(acct)))

(***************************************************************************)
(* C8 - classifier table.  For every counter triple in the bounded range   *)
(* the result of the classifier of utils/tokenHelper.ts is the             *)
(* first-match-wins table; in particular all three counters positive is    *)
(* Farmer, and mint = 0, buy = 0, sale > 0 is Trader.                      *)
(***************************************************************************)
C8_ClassifierIsFirstMatchTable ==
  classifier \in {"utils/tokenHelper.updateAccountType",
                  "utils/tokenHelper.determineAccountType"} =>
     /\ FlagsSet(acct) = FirstMatchTable(acct.mintCount, acct.buyCount, acct.saleCount)
     /\ (acct.mintCount > 0 /\ acct.buyCount > 0 /\ acct.saleCount > 0)
           => FlagsSet(acct) = {"isFarmer"}
     /\ (acct.mintCount = 0 /\ acct.buyCount = 0 /\ acct.saleCount > 0)
           => FlagsSet(acct) = {"isTrader"}

(***************************************************************************)
(* C9 - aggregate arithmetic.  A Transaction record that starts at zero    *)
(* and receives the sale prices p1..pn in order, all positive, ends with   *)
(* totalSalesVolume = sum(p), totalSalesCount = n, highestSalePrice =      *)
(* max(p), lowestSalePrice = min(p), averageSalePrice = sum(p) div n.      *)
(***************************************************************************)
C9_AggregatesOfStoredSale ==
  \A id \in DOMAIN transactions :
     LET p == PricesOf(id) IN
       (p # <<>> /\ \A i \in 1..Len(p) : p[i] > 0) =>
          /\ transactions[id].totalSalesVolume = SumOf(p)
          /\ transactions[id].totalSalesCount = Len(p)
          /\ transactions[id].highestSalePrice = MaxOf(p)
          /\ transactions[id].lowestSalePrice = MinOf(p)
          /\ transactions[id].averageSalePrice = BigDecimal(SumOf(p) \div Len(p), 1)

(***************************************************************************)
(* C10 - average consistency.  In every reachable state a Transaction      *)
(* record with totalSalesCount > 0 has averageSalePrice equal to           *)
(* totalSalesVolume divided by totalSalesCount (BigInt division).          *)
(***************************************************************************)
C10_AverageIsVolumeOverCount ==
  txn.totalSalesCount > 0 =>
     txn.averageSalePrice = txn.totalSalesVolume \div txn.totalSalesCount

\* three sales whose volume is not a multiple of the count
C10_Witness ==
  /\ prices = <<10, 0, 0>>
  /\ txn.totalSalesCount = 3
  /\ txn.totalSalesVolume = 10
  /\ txn.averageSalePrice = 3

(***************************************************************************)
(* C11 - zero-price sale.  After the aggregator has been applied to a      *)
(* non-empty sequence of sale prices that contains the price 0, the        *)
(* lowestSalePrice is 0, the minimum of the prices applied, whatever       *)
(* prices follow the zero-price sale.                                      *)
(***************************************************************************)
C11_ZeroPriceIsLowest ==
  (prices # <<>> /\ \E i \in 1..Len(prices) : prices[i] = 0) =>
     /\ txn.lowestSalePrice = 0
     /\ txn.lowestSalePrice = MinOf(prices)

\* positions of log at which a Transfer of token id was handled
TransfersOf(id) ==
  {i \in 1..Len(log) : IsTransferKey(log[i]) /\ TransferEvent(log[i]).tokenId = id}

\* the to address of the most recently handled Transfer of token id
LastTransferTo(id) ==
  TransferEvent(log[CHOOSE i \in TransfersOf(id) :
                       \A j \in TransfersOf(id) : j <= i]).to

TokenIds == {Token1, Token2}

(***************************************************************************)
(* C12 - token owner.  For every token id that has had at least one        *)
(* Transfer processed, the stored Token.owner is the to address of the     *)
(* most recently processed Transfer of that token id; an OrdersMatched     *)
(* event never sets the owner to a different address.                      *)
(***************************************************************************)
C12_OwnerIsLastTransferTo ==
  \A id \in TokenIds :
     TransfersOf(id) # {} =>
        /\ toHex(id) \in DOMAIN tokens
        /\ tokens[toHex(id)].owner = LastTransferTo(id)

(***************************************************************************)
(* RegistrySpec: the token registry functions of the repository applied    *)
(* to the CovenToken store for the Transfer events of the chain.           *)
(***************************************************************************)
TransferKeys == {k \in EventKeys : IsTransferKey(k)}

\* utils/helpers.ts getGlobalId(event, accountId): txHash-logIndex-accountId
part002_getGlobalId(event, accountId) ==
  toHex(event.txHash) \o <<"-">> \o toString(event.logIndex) \o <<"-">> \o accountId

\* utils/helpers.ts getOrCreateCovenToken(event, accountId): load by the
\* global id of the event, or a new unsaved entity
part002_getOrCreateCovenToken(toks, event, accountId) ==
  LET covenTokenId == part002_getGlobalId(event, accountId) IN
  IF covenTokenId \in DOMAIN toks THEN toks[covenTokenId]
  ELSE [id |-> covenTokenId, referenceId |-> covenTokenId,
        blockNumber |-> event.blockNumber, txHash |-> event.txHash,
        timestamp |-> event.blockTimestamp, owner |-> UNSET, tokenId |-> UNSET]

\* helpers/utils.ts updateTokenOwner: load or create by tokenId.toString(),
\* assign the owner and the event details, save
updateTokenOwner(toks, tokenId, newOwner, logIndex, txHash, blockNumber, blockTimestamp) ==
  LET id == toString(tokenId)
      token0 == IF id \in DOMAIN toks THEN toks[id]
                ELSE [id |-> id, tokenId |-> tokenId,
                      tokenMintCount |-> BIGINT_ZERO, owner |-> UNSET,
                      logIndex |-> UNSET, txHash |-> EMPTY_BYTES,
                      blockNumber |-> UNSET, blockTimestamp |-> UNSET]
      token == [token0 EXCEPT !.owner = newOwner, !.logIndex = logIndex,
                  !.txHash = txHash, !.blockNumber = blockNumber,
                  !.blockTimestamp = blockTimestamp]
  IN Put(toks, id, token)

RegistryInit ==
  /\ accounts = EmptyMap
  /\ tokens = EmptyMap
  /\ transactions = EmptyMap
  /\ histories = EmptyMap
  /\ log = <<>>
  /\ acct = loadOrCreateAccount(EmptyMap, Addr1)
  /\ txn = ZeroTransaction
  /\ prices = <<>>
  /\ classifier = NoClassifier

\* the token step of handleTransfer in mappings/transactions.ts:
\* getOrCreateCovenToken(event, tokenId.toString()), owner and tokenId
\* assigned, covenToken.save()
registerByGlobalId(k) ==
  /\ Len(log) < MaxEvents
  /\ LET event == TransferEvent(k)
         covenToken == part002_getOrCreateCovenToken(tokens, event, toString(event.tokenId))
         saved == [covenToken EXCEPT !.owner = toHex(event.to),
                                     !.timestamp = event.blockTimestamp,
                                     !.tokenId = event.tokenId]
     IN tokens' = Put(tokens, saved.id, saved)
  /\ log' = Append(log, k)
  /\ UNCHANGED <<accounts, transactions, histories, acct, txn, prices, classifier>>

\* updateTokenOwner called with the Transfer's token id and recipient
registerByDecimalId(k) ==
  /\ Len(log) < MaxEvents
  /\ LET event == TransferEvent(k)
     IN tokens' = updateTokenOwner(tokens, event.tokenId, event.to, event.logIndex,
                                   event.txHash, event.blockNumber, event.blockTimestamp)
  /\ log' = Append(log, k)
  /\ UNCHANGED <<accounts, transactions, histories, acct, txn, prices, classifier>>

\* the token step of handleTransfer in mappings/covenToken.ts:
\* createOrUpdateCovenToken(tokenId), details and owner assigned, token.save()
registerByHexId(k) ==
  /\ Len(log) < MaxEvents
  /\ LET event == TransferEvent(k)
         ct == createOrUpdateCovenToken(tokens, event.tokenId)
         token == [ct.token EXCEPT !.logIndex = event.logIndex,
                     !.txHash = event.txHash, !.blockNumber = event.blockNumber,
                     !.blockTimestamp = event.blockTimestamp, !.owner = event.to]
     IN tokens' = Put(ct.tokens, token.id, token)
  /\ log' = Append(log, k)
  /\ UNCHANGED <<accounts, transactions, histories, acct, txn, prices, classifier>>

RegistryNext ==
  \E k \in TransferKeys :
     \/ registerByGlobalId(k)
     \/ registerByDecimalId(k)
     \/ registerByHexId(k)

RegistrySpec == RegistryInit /\ [][RegistryNext]_vars

\* the stored Token records of token id: every key the registry functions
\* derive (hex id, decimal id, global id) ends with the token id
RecordsOf(id) == {r \in DOMAIN tokens : r[Len(r)] = id}

(***************************************************************************)
(* C13 - one record per token.  The token registry is keyed by token id,   *)
(* not by a log-scoped id: after any sequence of events that reference the *)
(* same token id at most one Token record exists for it, and every path    *)
(* that touches the token reads and writes that same record.               *)
(***************************************************************************)
C13_OneRecordPerToken ==
  \A id \in TokenIds : Cardinality(RecordsOf(id)) <= 1

\* the OrdersMatched events handled so far whose transaction holds at least
\* one CryptoCoven Transfer log
SalesHandled ==
  {i \in 1..Len(log) : IsOrdersMatchedKey(log[i]) /\ TransferPositions(log[i][1]) # {}}

(***************************************************************************)
(* C14 - batch sale.  For a transaction with k >= 1 Transfer logs and an   *)
(* OrdersMatched log, the Transaction record written by the OrdersMatched  *)
(* handler has totalNFTsSold = k, and each token whose Transfer was        *)
(* processed has a Token record whose owner is the recipient.              *)
(***************************************************************************)
C14_BatchSaleCountsEveryTransfer ==
  (SalesHandled # {} /\ Len(log) \in SalesHandled) =>
     LET o == OrdersMatchedEvent(Last(log))
         h == o.txHash
         id == getTransactionId(o.txHash, o.logIndex)
     IN /\ id \in DOMAIN transactions
        /\ transactions[id].totalNFTsSold = Cardinality(TransferPositions(h))
        /\ \A i \in 1..Len(log) :
              (IsTransferKey(log[i]) /\ log[i][1] = h) =>
                 /\ toHex(TransferEvent(log[i]).tokenId) \in DOMAIN tokens
                 /\ tokens[toHex(TransferEvent(log[i]).tokenId)].owner =
                       LastTransferTo(TransferEvent(log[i]).tokenId)


(***************************************************************************)
(* The create* pair of utils/transactionHelper.ts (UtilsSpec)              *)
(*                                                                         *)
(* createTransfer and createOrdersMatched with the helpers of              *)
(* utils/accountHelper.ts and utils/tokenHelper.ts.  In this specification *)
(* tokens holds the event-keyed TokenEvent records.                        *)
(***************************************************************************)
\* utils/tokenHelper.ts getGlobalId(event): txHash-logIndex
getGlobalId(event) == getTransactionId(event.txHash, event.logIndex)

\* getOrCreateAccount zeroing the counters of an account it has loaded
getOrCreateAccount_ResetsLoaded(accs, accountAddress) ==
  IF toHex(accountAddress) \in DOMAIN accs
  THEN [accs[toHex(accountAddress)] EXCEPT
          !.activityCount = BIGINT_ZERO, !.mintCount = BIGINT_ZERO,
          !.buyCount = BIGINT_ZERO, !.saleCount = BIGINT_ZERO]
  ELSE [id |-> toHex(accountAddress),
        activityCount |-> BIGINT_ZERO, mintCount |-> BIGINT_ZERO,
        buyCount |-> BIGINT_ZERO, saleCount |-> BIGINT_ZERO,
        totalAmountBought |-> BIGINT_ZERO, totalAmountSold |-> BIGINT_ZERO,
        totalAmountBalance |-> BIGINT_ZERO,
        blockNumber |-> BIGINT_ZERO, blockTimestamp |-> BIGINT_ZERO,
        isOG |-> FALSE, isCollector |-> FALSE, isHunter |-> FALSE,
        isFarmer |-> FALSE, isTrader |-> FALSE]

\* utils/accountHelper.ts getOrCreateAccount: Account.load(address.toHex())
\* with each null field but totalAmountBalance replaced by zero, or a new
\* zeroed Account; neither is saved
getOrCreateAccount(accs, accountAddress) ==
  IF toHex(accountAddress) \in DOMAIN accs
  THEN [accs[toHex(accountAddress)] EXCEPT
          !.activityCount = OrZero(@), !.mintCount = OrZero(@),
          !.buyCount = OrZero(@), !.saleCount = OrZero(@),
          !.totalAmountBought = OrZero(@), !.totalAmountSold = OrZero(@),
          !.blockNumber = OrZero(@), !.blockTimestamp = OrZero(@)]
  ELSE [id |-> toHex(accountAddress),
        activityCount |-> BIGINT_ZERO, mintCount |-> BIGINT_ZERO,
        buyCount |-> BIGINT_ZERO, saleCount |-> BIGINT_ZERO,
        totalAmountBought |-> BIGINT_ZERO, totalAmountSold |-> BIGINT_ZERO,
        totalAmountBalance |-> BIGINT_ZERO,
        blockNumber |-> BIGINT_ZERO, blockTimestamp |-> BIGINT_ZERO,
        isOG |-> FALSE, isCollector |-> FALSE, isHunter |-> FALSE,
        isFarmer |-> FALSE, isTrader |-> FALSE]

\* utils/accountHelper.ts updateAccountStatistics: one counter by the first
\* flag that is set, then the activity count; nothing is saved
updateAccountStatistics(account, isMint, isBuy, isSale) ==
  LET a1 == IF isMint THEN [account EXCEPT !.mintCount = @ + BIGINT_ONE]
            ELSE IF isBuy THEN [account EXCEPT !.buyCount = @ + BIGINT_ONE]
            ELSE IF isSale THEN [account EXCEPT !.saleCount = @ + BIGINT_ONE]
            ELSE account
  IN [a1 EXCEPT !.activityCount = @ + BIGINT_ONE]

\* utils/accountHelper.ts updateAccountHistory: a new AccountHistory under the
\* account-specific global id, saved
updateAccountHistory(hist, account, event) ==
  Put(hist, part002_getGlobalId(event, account.id),
      [account |-> account.id, timestamp |-> event.blockTimestamp,
       mintCount |-> account.mintCount, buyCount |-> account.buyCount,
       saleCount |-> account.saleCount, txHash |-> event.txHash])

\* utils/tokenHelper.ts getOrCreateTokenEvent: load by the global id of the
\* event, or create with the emitting contract and token id zero and save
getOrCreateTokenEvent(toks, event) ==
  LET id == getGlobalId(event) IN
  IF id \in DOMAIN toks THEN toks
  ELSE Put(toks, id, [id |-> id, contractAddress |-> CRYPTOCOVEN_ADDRESS,
                      tokenId |-> BIGINT_ZERO])

\* the id of the TokenEvent written for the log just before the event
PreviousTokenEventId(event) == getTransactionId(event.txHash, event.logIndex - BIGINT_ONE)

\* getTokenId looking at the log index after the event's own
getTokenId_NextLogIndex(toks, event) ==
  IF getTransactionId(event.txHash, event.logIndex + BIGINT_ONE) \in DOMAIN toks
  THEN toks[getTransactionId(event.txHash, event.logIndex + BIGINT_ONE)].tokenId
  ELSE UNSET

\* utils/tokenHelper.ts getTokenId: the token id of the TokenEvent stored for
\* the previous log index, UNSET for null
getTokenId(toks, event) ==
  IF PreviousTokenEventId(event) \in DOMAIN toks
  THEN toks[PreviousTokenEventId(event)].tokenId ELSE UNSET

\* utils/tokenHelper.ts getTokenOwner: the contractAddress field of the
\* TokenEvent stored for the previous log index, UNSET for null
getTokenOwner(toks, event) ==
  IF PreviousTokenEventId(event) \in DOMAIN toks
  THEN toks[PreviousTokenEventId(event)].contractAddress ELSE UNSET

\* utils/transactionHelper.ts loadOrCreateTransaction: load, or create with
\* zeroed fields and save; type is "UNSET" when the caller passes no third
\* argument
loadOrCreateTransaction(txs, id, accountId, type) ==
  IF id \in DOMAIN txs THEN txs
  ELSE Put(txs, id,
           [id |-> id, account |-> accountId, type |-> type,
            from |-> EMPTY_BYTES, to |-> EMPTY_BYTES,
            buyer |-> EMPTY_BYTES, seller |-> EMPTY_BYTES,
            nft |-> id, tokenId |-> UNSET,
            nftSalePrice |-> BIGINT_ZERO, totalSold |-> BIGINT_ZERO,
            blockNumber |-> BIGINT_ZERO, blockTimestamp |-> BIGINT_ZERO,
            totalSalesVolume |-> BIGINT_ZERO, averageSalePrice |-> BIGINT_ZERO,
            totalSalesCount |-> BIGINT_ZERO, highestSalePrice |-> BIGINT_ZERO,
            lowestSalePrice |-> BIGINT_ZERO])

\* createTransfer(event): the store after the handler
createTransferStore(st, event) ==
  LET fromAccount == getOrCreateAccount(st.accounts, event.from)
      toAccount == getOrCreateAccount(st.accounts, event.to)
      toks1 == getOrCreateTokenEvent(st.tokens, event)
      toks2 == [toks1 EXCEPT ![getGlobalId(event)].tokenId = event.tokenId]
      transactionId == getGlobalId(event)
      \* the local transactionType (MINT or TRADE) is computed but not passed
      txs1 == loadOrCreateTransaction(st.transactions, transactionId,
                                      toAccount.id, "UNSET")
      txs2 == [txs1 EXCEPT ![transactionId] =
                 [@ EXCEPT !.to = event.to, !.tokenId = event.tokenId,
                           !.nft = transactionId,
                           !.blockNumber = event.blockNumber,
                           !.blockTimestamp = event.blockTimestamp]]
      isMint == event.from = ZERO_ADDRESS
      from1 == IF isMint THEN fromAccount
               ELSE updateAccountStatistics(fromAccount, FALSE, FALSE, FALSE)
      to1 == IF isMint THEN updateAccountStatistics(toAccount, TRUE, FALSE, FALSE)
             ELSE updateAccountStatistics(toAccount, FALSE, TRUE, FALSE)
      hist1 == updateAccountHistory(st.histories, from1, event)
      hist2 == updateAccountHistory(hist1, to1, event)
      from2 == updateAccountTypes(from1)
      to2 == updateAccountTypes(to1)
  IN [accounts |-> Put(Put(st.accounts, from2.id, from2), to2.id, to2),
      tokens |-> toks2,
      transactions |-> txs2,
      histories |-> hist2]

\* createOrdersMatched(event): the store after the handler
createOrdersMatchedStore(st, event) ==
  LET tokenId == getTokenId(st.tokens, event)
      previousOwner == getTokenOwner(st.tokens, event)
      buyerAddress == event.taker
      sellerAddress == previousOwner
      buyerAccount == getOrCreateAccount(st.accounts, buyerAddress)
      sellerAccount == getOrCreateAccount(st.accounts, sellerAddress)
      salePrice == event.price
      transactionId == getGlobalId(event)
      txs1 == loadOrCreateTransaction(st.transactions, transactionId,
                                      buyerAccount.id, "TRADE")
      transaction == updateTransactionStatistics(
                       [txs1[transactionId] EXCEPT
                          !.buyer = buyerAddress, !.seller = sellerAddress,
                          !.nftSalePrice = salePrice,
                          !.blockNumber = event.blockNumber,
                          !.blockTimestamp = event.blockTimestamp],
                       salePrice)
      \* the fourth argument is the sale price: a non-null reference, true
      buyer1 == updateAccountStatistics(buyerAccount, FALSE, TRUE, TRUE)
      seller1 == updateAccountStatistics(sellerAccount, FALSE, FALSE, TRUE)
      buyer2 == updateAccountTypes(buyer1)
      seller2 == updateAccountTypes(seller1)
  IN IF tokenId = UNSET \/ sellerAddress = UNSET THEN st
     ELSE [accounts |-> Put(Put(st.accounts, buyer2.id, buyer2), seller2.id, seller2),
           tokens |-> st.tokens,
           transactions |-> Put(txs1, transactionId, transaction),
           histories |-> st.histories]

UtilsInit ==
  /\ accounts = EmptyMap
  /\ tokens = EmptyMap
  /\ transactions = EmptyMap
  /\ histories = EmptyMap
  /\ log = <<>>
  /\ acct = NewAccount(toHex(Addr1))
  /\ txn = ZeroTransaction
  /\ prices = <<>>
  /\ classifier = NoClassifier

createTransfer(k) ==
  /\ Len(log) < MaxEvents
  /\ IsTransferKey(k)
  /\ LET st == createTransferStore(Store, TransferEvent(k)) IN
       /\ accounts' = st.accounts
       /\ tokens' = st.tokens
       /\ transactions' = st.transactions
       /\ histories' = st.histories
  /\ log' = Append(log, k)
  /\ UNCHANGED <<acct, txn, prices, classifier>>

createOrdersMatched(k) ==
  /\ Len(log) < MaxEvents
  /\ IsOrdersMatchedKey(k)
  /\ LET st == createOrdersMatchedStore(Store, OrdersMatchedEvent(k)) IN
       /\ accounts' = st.accounts
       /\ tokens' = st.tokens
       /\ transactions' = st.transactions
       /\ histories' = st.histories
  /\ log' = Append(log, k)
  /\ UNCHANGED <<acct, txn, prices, classifier>>

UtilsNext ==
  \E k \in EventKeys :
     \/ createTransfer(k)
     \/ createOrdersMatched(k)

UtilsSpec == UtilsInit /\ [][UtilsNext]_vars

\* the store after createTransfer / createOrdersMatched handle seq in order
RECURSIVE UtilsStoreAfter(_)
UtilsStoreAfter(seq) ==
  IF seq = <<>> THEN EmptyStore
  ELSE IF IsTransferKey(Last(seq))
       THEN createTransferStore(UtilsStoreAfter(Front(seq)), TransferEvent(Last(seq)))
       ELSE createOrdersMatchedStore(UtilsStoreAfter(Front(seq)),
                                     OrdersMatchedEvent(Last(seq)))

\* the last event handled is a Transfer that is no mint, in a transaction
\* without any OrdersMatched log
LastIsBareTransfer ==
  /\ log # <<>>
  /\ IsTransferKey(Last(log))
  /\ TransferEvent(Last(log)).from # ZERO_ADDRESS
  /\ OrdersMatchedPositions(Last(log)[1]) = {}

\* C15: a Transfer between two non-zero addresses whose transaction holds no
\* OrdersMatched log is recorded with type TRANSFER and changes no mint, buy
\* or sale counter and no traded total of either account
C15_BareTransferChangesNoCounter ==
  LastIsBareTransfer =>
     LET e == TransferEvent(Last(log))
         before == UtilsStoreAfter(Front(log))
     IN /\ getGlobalId(e) \in DOMAIN transactions
        /\ transactions[getGlobalId(e)].type = "TRANSFER"
        /\ \A a \in {e.from, e.to} :
              \A f \in {"mintCount", "buyCount", "saleCount",
                        "totalAmountBought", "totalAmountSold"} :
                 Counter(Store, a, f) = Counter(before, a, f)


(***************************************************************************)
(* The fixed-offset handleTransfer (Offset5Spec)                           *)
(*                                                                         *)
(* The revision of handleTransfer that returns early when the event has no *)
(* receipt and otherwise looks for OrdersMatched five logs after its own.  *)
(***************************************************************************)
\* the position in logs of the log with the event's logIndex, 0 for -1
FoundIndex(logs, logIndex) ==
  IF \E i \in 1..Len(logs) : logs[i].logIndex = logIndex
  THEN CHOOSE i \in 1..Len(logs) :
         /\ logs[i].logIndex = logIndex
         /\ \A j \in 1..(i - 1) : logs[j].logIndex # logIndex
  ELSE 0

\* isOrdersMatched: the log five positions after the event's own log carries
\* the OrdersMatched signature
offset5_isOrdersMatched(event) ==
  LET logs == event.receipt.logs
      foundIndex == FoundIndex(logs, event.logIndex)
  IN /\ foundIndex >= 1
     /\ foundIndex + 5 <= Len(logs)
     /\ logs[foundIndex + 5].topics[1] = ORDERS_MATCHED_EVENT_SIG

\* the store after this handleTransfer(event) returns
offset5_handleTransferStore(st, event) ==
  LET fromAccount0 == loadOrCreateAccount(st.accounts, event.from)
      toAccount0 == loadOrCreateAccount(st.accounts, event.to)
      fromAccount1 == [fromAccount0 EXCEPT !.logIndex = event.logIndex,
                         !.txHash = event.txHash,
                         !.blockNumber = event.blockNumber,
                         !.blockTimestamp = event.blockTimestamp]
      toAccount1 == [toAccount0 EXCEPT !.logIndex = event.logIndex,
                       !.txHash = event.txHash,
                       !.blockNumber = event.blockNumber,
                       !.blockTimestamp = event.blockTimestamp]
      created == createOrUpdateCovenToken(st.tokens, event.tokenId)
      token == [created.token EXCEPT !.logIndex = event.logIndex,
                  !.txHash = event.txHash,
                  !.blockNumber = event.blockNumber,
                  !.blockTimestamp = event.blockTimestamp,
                  !.owner = event.to]
      tokens1 == Put(created.tokens, token.id, token)
      isMint == event.from = ZERO_ADDRESS
      \* "NONE": the early path of a missing receipt, which counts nothing
      counted == IF isMint THEN "MINT"
                 ELSE IF ~event.receipt.present THEN "NONE"
                 ELSE IF offset5_isOrdersMatched(event) THEN "TRADE"
                 ELSE "TRANSFER"
      fromAccount2 == IF counted \in {"MINT", "NONE"} THEN fromAccount1
                      ELSE updateTransactionCounts(fromAccount1, counted, FALSE)
      toAccount2 == IF counted = "NONE" THEN toAccount1
                    ELSE updateTransactionCounts(toAccount1, counted, FALSE)
      fromAccount3 == updateAccountType(fromAccount2)
      toAccount3 == updateAccountType(toAccount2)
      histories1 == createAccountHistory(st.histories, fromAccount3)
      histories2 == createAccountHistory(histories1, toAccount3)
  IN [accounts |-> Put(Put(st.accounts, fromAccount3.id, fromAccount3),
                       toAccount3.id, toAccount3),
      tokens |-> tokens1,
      transactions |-> st.transactions,
      histories |-> histories2]

Offset5Init ==
  /\ accounts = EmptyMap
  /\ tokens = EmptyMap
  /\ transactions = EmptyMap
  /\ histories = EmptyMap
  /\ log = <<>>
  /\ acct = NewAccount(toHex(Addr1))
  /\ txn = ZeroTransaction
  /\ prices = <<>>
  /\ classifier = NoClassifier

offset5_handleTransfer(k) ==
  /\ Len(log) < MaxEvents
  /\ LET st == offset5_handleTransferStore(Store, TransferEvent(k)) IN
       /\ accounts' = st.accounts
       /\ tokens' = st.tokens
       /\ transactions' = st.transactions
       /\ histories' = st.histories
  /\ log' = Append(log, k)
  /\ UNCHANGED <<acct, txn, prices, classifier>>

Offset5Next == \E k \in TransferKeys : offset5_handleTransfer(k)

Offset5Spec == Offset5Init /\ [][Offset5Next]_vars

\* the store after this handleTransfer handles the Transfer events of seq
RECURSIVE Offset5StoreAfter(_)
Offset5StoreAfter(seq) ==
  IF seq = <<>> THEN EmptyStore
  ELSE offset5_handleTransferStore(Offset5StoreAfter(Front(seq)),
                                   TransferEvent(Last(seq)))

\* the event of key k delivered with a receipt that holds its own log only
AsBareTransfer(k) ==
  [TransferEvent(k) EXCEPT
     !.receipt = [present |-> TRUE, logs |-> <<Chain[k[1]][k[2]]>>]]

\* the last event handled is a Transfer that is no mint and has no receipt
LastIsTransferWithoutReceipt ==
  /\ log # <<>>
  /\ IsTransferKey(Last(log))
  /\ TransferEvent(Last(log)).from # ZERO_ADDRESS
  /\ ~TransferEvent(Last(log)).receipt.present

\* C16: a Transfer that is no mint and arrives without a receipt is handled
\* to completion and leaves the store that the same Transfer leaves when it
\* arrives as a bare transfer with its receipt (TRANSFER bookkeeping)
C16_NoReceiptIsBareTransfer ==
  LastIsTransferWithoutReceipt =>
     Store = offset5_handleTransferStore(Offset5StoreAfter(Front(log)),
                                         AsBareTransfer(Last(log)))


\* the last event handled is an OrdersMatched from whose receipt no token id
\* is recovered
LastOrderHasNoTokenId ==
  /\ log # <<>>
  /\ IsOrdersMatchedKey(Last(log))
  /\ extractTokenIdFromLogs(OrdersMatchedEvent(Last(log))) = UNSET

\* C17: an OrdersMatched whose token id cannot be recovered from the logs of
\* its transaction leaves the store as it was: no Transaction, Account, Token
\* or history record is created or changed
C17_UnrecoveredSaleWritesNothing ==
  LastOrderHasNoTokenId => Store = StoreAfter(Front(log))


\* the from addresses of the Transfer logs of transaction h
TransferSendersOf(h) == {Chain[h][j].topics[2] : j \in TransferPositions(h)}

\* the addresses whose stored saleCount the last event increased
SaleCountIncreasedBy(before) ==
  {a \in Addresses \cup {CRYPTOCOVEN_ADDRESS, OPENSEA_ADDRESS} :
     Counter(Store, a, "saleCount") > Counter(before, a, "saleCount")}

\* C18: the seller of every stored Transaction is the from address of a
\* Transfer log of the same transaction, and an OrdersMatched event increments
\* saleCount only on such an address
C18_SellerIsTransferSender ==
  /\ \A id \in DOMAIN transactions :
        transactions[id].seller # EMPTY_BYTES =>
           transactions[id].seller \in TransferSendersOf(id[2])
  /\ (log # <<>> /\ IsOrdersMatchedKey(Last(log))) =>
        SaleCountIncreasedBy(UtilsStoreAfter(Front(log)))
           \subseteq TransferSendersOf(Last(log)[1])


\* the last event handled is a Transfer that is no mint and has its receipt
LastIsTransferWithReceipt ==
  /\ log # <<>>
  /\ IsTransferKey(Last(log))
  /\ TransferEvent(Last(log)).from # ZERO_ADDRESS
  /\ TransferEvent(Last(log)).receipt.present

\* an OrdersMatched log stands at or after position p of transaction h
OrdersMatchedAtOrAfter(h, p) == \E j \in OrdersMatchedPositions(h) : j >= p

\* C19: a Transfer that is no mint is classified TRADE exactly when a log with
\* the OrdersMatched signature stands at or after the Transfer's own position
\* in the receipt; an OrdersMatched that only precedes it gives TRANSFER
C19_TradeIffOrdersMatchedFollows ==
  LastIsTransferWithReceipt =>
     LET k == Last(log) IN
     (transactionTypeOf(TransferEvent(k)) = "TRADE") <=> OrdersMatchedAtOrAfter(k[1], k[2])


\* the id of the AccountHistory that handleTransfer writes for an account
\* loaded as account0 and counted once
HistoryIdAfter(account0) ==
  account0.id \o <<"-">> \o toString(account0.transactionCount + BIGINT_ONE)

\* C20: a Transfer whose from is the zero address is classified MINT whatever
\* its receipt holds, also when the receipt holds an OrdersMatched log; no
\* stored buyCount or saleCount changes, and the history written for the
\* recipient carries its buyCount and saleCount unchanged and its mintCount
\* incremented
C20_MintIsTerminal ==
  LastIsMint =>
     LET before == StoreAfter(Front(log))
         e == TransferEvent(Last(log))
         to0 == loadOrCreateAccount(before.accounts, e.to)
     IN /\ transactionTypeOf(e) = "MINT"
        /\ \A a \in Addresses, f \in {"buyCount", "saleCount"} :
              Counter(Store, a, f) = Counter(before, a, f)
        /\ HistoryIdAfter(to0) \in DOMAIN histories
        /\ histories[HistoryIdAfter(to0)].buyCount = to0.buyCount
        /\ histories[HistoryIdAfter(to0)].saleCount = to0.saleCount
        /\ histories[HistoryIdAfter(to0)].mintCount = to0.mintCount + BIGINT_ONE

\* the mint of token 2 is handled with its receipt, which holds an
\* OrdersMatched log, after a sale has given the recipient a stored saleCount
C20_Witness ==
  /\ LastIsMint
  /\ Last(log) = <<4, 1, TRUE>>
  /\ checkForOrdersMatched(TransferEvent(Last(log)))
  /\ Counter(Store, Addr1, "saleCount") = 1
  /\ toHex(Token2) \in DOMAIN tokens
  /\ tokens[toHex(Token2)].owner = Addr1


\* C21: after the Transfer and the OrdersMatched of one single-item sale are
\* both handled, the Transaction of the sale counts the sale once: its
\* totalSalesCount is 1 and its totalSalesVolume is the sale price
C21_TradeAggregatedOnce ==
  LastTwoAreSingleSale =>
     \A id \in TransactionsOf(SaleOrder.txHash) :
        /\ transactions[id].totalSalesCount = BIGINT_ONE
        /\ transactions[id].totalSalesVolume = SaleOrder.price


CountFields == {"mintCount", "buyCount", "saleCount"}

\* C22: the stored mintCount, buyCount and saleCount of every account are
\* non-negative, and no step of a handler makes one of them smaller
C22_CountersNeverDecrease ==
  [][/\ \A id \in DOMAIN accounts' : \A f \in CountFields : accounts'[id][f] >= 0
     /\ \A id \in DOMAIN accounts :
           /\ id \in DOMAIN accounts'
           /\ \A f \in CountFields : accounts'[id][f] >= accounts[id][f]]_vars

\* an account whose stored saleCount has grown twice
C22_Witness ==
  /\ Len(log) = 2
  /\ IsOrdersMatchedKey(log[1]) /\ IsOrdersMatchedKey(log[2])
  /\ Counter(Store, Addr1, "saleCount") = 2


(***************************************************************************)
(* Traded totals of one account (BalanceSpec)                              *)
(*                                                                         *)
(* One in-memory Account updated by one of the two functions that keep the *)
(* traded totals: updateAccountStatistics with a sale price, or            *)
(* updateAccountHistory of utils/tokenHelper.ts.  classifier records which *)
(* of the two is in use; prices records the prices applied.                *)
(***************************************************************************)
\* updateAccountStatistics(account, isMint, isBuy, salePrice) with the sale
\* price as fourth parameter, UNSET for null: counts and totals, no balance
statistics_updateAccountStatistics(account, isMint, isBuy, salePrice) ==
  IF isMint
  THEN [account EXCEPT !.mintCount = OrZero(@) + BIGINT_ONE]
  ELSE IF isBuy
  THEN [account EXCEPT
          !.buyCount = OrZero(@) + BIGINT_ONE,
          !.totalAmountBought = IF salePrice # UNSET THEN OrZero(@) + salePrice ELSE @]
  ELSE IF salePrice # UNSET
  THEN [account EXCEPT
          !.saleCount = OrZero(@) + BIGINT_ONE,
          !.totalAmountSold = OrZero(@) + salePrice]
  ELSE account

\* utils/tokenHelper.ts updateAccountHistory(account, transactionType, price,
\* isSale): the transaction count, then the counter, total and balance of
\* the transaction type
tokenHelper_updateAccountHistory(account, transactionType, price, isSale) ==
  LET a1 == [account EXCEPT !.transactionCount = @ + BIGINT_ONE] IN
  IF transactionType = "MINT"
  THEN [a1 EXCEPT !.mintCount = @ + a1.mintCount]
  ELSE IF transactionType = "TRADE" /\ isSale
  THEN [a1 EXCEPT !.saleCount = @ + BIGINT_ONE,
                  !.totalAmountSold = @ + price,
                  !.totalAmountBalance = @ - price]
  ELSE IF transactionType = "TRADE" /\ ~isSale
  THEN [a1 EXCEPT !.buyCount = @ + BIGINT_ONE,
                  !.totalAmountBought = @ + price,
                  !.totalAmountBalance = @ + price]
  ELSE a1

StatisticsInUse == "updateAccountStatistics"

HistoryInUse == "utils/tokenHelper.updateAccountHistory"

BalanceInit ==
  /\ accounts = EmptyMap
  /\ tokens = EmptyMap
  /\ transactions = EmptyMap
  /\ histories = EmptyMap
  /\ log = <<>>
  /\ acct = NewAccount(toHex(Addr1))
  /\ txn = ZeroTransaction
  /\ prices = <<>>
  /\ classifier = NoClassifier

applyStatistics(isMint, isBuy, salePrice) ==
  /\ Len(prices) < MaxSales
  /\ classifier \in {NoClassifier, StatisticsInUse}
  /\ acct' = statistics_updateAccountStatistics(acct, isMint, isBuy, salePrice)
  /\ prices' = Append(prices, salePrice)
  /\ classifier' = StatisticsInUse
  /\ UNCHANGED <<storeVars, txn>>

applyHistory(transactionType, price, isSale) ==
  /\ Len(prices) < MaxSales
  /\ classifier \in {NoClassifier, HistoryInUse}
  /\ acct' = tokenHelper_updateAccountHistory(acct, transactionType, price, isSale)
  /\ prices' = Append(prices, price)
  /\ classifier' = HistoryInUse
  /\ UNCHANGED <<storeVars, txn>>

BalanceNext ==
  \/ \E isMint \in BOOLEAN, isBuy \in BOOLEAN, p \in SalePrices :
        applyStatistics(isMint, isBuy, p)
  \/ \E t \in TransactionTypes, p \in SalePrices, isSale \in BOOLEAN :
        applyHistory(t, p, isSale)

BalanceSpec == BalanceInit /\ [][BalanceNext]_vars

\* C23: the totals of an account follow its buys and sales at the sale price,
\* so that in every state totalAmountBalance = totalAmountBought -
\* totalAmountSold
C23_BalanceIsBoughtMinusSold ==
  acct.totalAmountBalance = acct.totalAmountBought - acct.totalAmountSold

\* C24: totalAmountBought, totalAmountSold and totalAmountBalance of an
\* account are never negative, also when it sells without having bought
C24_TotalsAreNonNegative ==
  /\ acct.totalAmountBought >= 0
  /\ acct.totalAmountSold >= 0
  /\ acct.totalAmountBalance >= 0


\* the counters and totals of an Account of utils/accountHelper.ts
UtilsCounters ==
  {"activityCount", "mintCount", "buyCount", "saleCount",
   "totalAmountBought", "totalAmountSold", "totalAmountBalance"}

\* C25: getOrCreateAccount gives, for an address without a stored record, an
\* account under that address with every counter and total zero and the five
\* flags false, and for a stored account exactly the stored fields; it writes
\* nothing, so a second call gives the same again
C25_GetOrCreateAccountIsAFaithfulRead ==
  \A a \in Addresses \cup {CRYPTOCOVEN_ADDRESS} :
     LET account == getOrCreateAccount(accounts, a) IN
     /\ toHex(a) \notin DOMAIN accounts =>
           /\ account.id = toHex(a)
           /\ \A f \in UtilsCounters : account[f] = 0
           /\ FlagsSet(account) = {}
     /\ toHex(a) \in DOMAIN accounts => account = accounts[toHex(a)]

\* one address has a stored account with a counter above zero, another has
\* no record
C25_Witness ==
  /\ toHex(Addr2) \in DOMAIN accounts
  /\ accounts[toHex(Addr2)].buyCount > 0
  /\ toHex(ZERO_ADDRESS) \notin DOMAIN accounts


\* the last event handled is a Transfer
LastIsTransfer == log # <<>> /\ IsTransferKey(Last(log))

\* C26: after handleTransfer returns, the store holds an Account for the from
\* and for the to address of the event, carrying the provenance of the event
\* and a transactionCount that includes it
C26_TransferPersistsBothAccounts ==
  LastIsTransfer =>
     LET e == TransferEvent(Last(log))
         before == StoreAfter(Front(log))
     IN \A a \in {e.from, e.to} :
           /\ toHex(a) \in DOMAIN accounts
           /\ accounts[toHex(a)].txHash = e.txHash
           /\ accounts[toHex(a)].logIndex = e.logIndex
           /\ (a # ZERO_ADDRESS) =>
                 Counter(Store, a, "transactionCount")
                    > Counter(before, a, "transactionCount")

\* the accounts an event touches: from and to of a Transfer, maker and taker
\* of an OrdersMatched
TouchedBy(k) ==
  IF IsTransferKey(k) THEN {TransferEvent(k).from, TransferEvent(k).to}
  ELSE {OrdersMatchedEvent(k).maker, OrdersMatchedEvent(k).taker}

\* C27: AccountHistory is append-only: an event handled for the first time
\* leaves every earlier snapshot as it was and adds one new snapshot for each
\* account it touches
C27_HistoryIsAppendOnly ==
  [][(\A i \in 1..Len(log) :
         log[i][1] # Last(log')[1] \/ log[i][2] # Last(log')[2]) =>
        /\ \A id \in DOMAIN histories :
              id \in DOMAIN histories' /\ histories'[id] = histories[id]
        /\ Cardinality(DOMAIN histories') =
              Cardinality(DOMAIN histories) + Cardinality(TouchedBy(Last(log')))]_vars


(***************************************************************************)
(* Event ids as character strings (IdSpec)                                 *)
(*                                                                         *)
(* getGlobalId / getTransactionId build the id of an event by string       *)
(* concatenation.  Here the id is the sequence of its characters, and the  *)
(* store keeps one record per id, as Transaction.load / save do.           *)
(***************************************************************************)
\* number of hexadecimal digits of a transaction hash (64 on chain)
HashWidth == 2

TxHashes == {1, 17, 18, 161}

LogIndices == {0, 1, 2, 11, 12, 112}

DigitChars == <<"0", "1", "2", "3", "4", "5", "6", "7", "8", "9",
                "a", "b", "c", "d", "e", "f">>

\* the w low hexadecimal digits of b, most significant first
RECURSIVE HexDigits(_, _)
HexDigits(b, w) ==
  IF w = 0 THEN <<>>
  ELSE HexDigits(b \div 16, w - 1) \o <<DigitChars[(b % 16) + 1]>>

\* Bytes.toHexString() / toHex() of a hash: "0x" and two digits per byte
HexString(b) == <<"0", "x">> \o HexDigits(b, HashWidth)

\* BigInt.toString(): the decimal digits without leading zeros
RECURSIVE DecString(_)
DecString(n) ==
  IF n < 10 THEN <<DigitChars[n + 1]>>
  ELSE DecString(n \div 10) \o <<DigitChars[(n % 10) + 1]>>

\* the id made of the log index alone
GlobalIdString_LogIndexOnly(txHash, logIndex) == DecString(logIndex)

\* getGlobalId(event) / getTransactionId(txHash, logIndex) as characters
GlobalIdString(txHash, logIndex) ==
  HexString(txHash) \o <<"-">> \o DecString(logIndex)

IdInit ==
  /\ accounts = EmptyMap
  /\ tokens = EmptyMap
  /\ transactions = EmptyMap
  /\ histories = EmptyMap
  /\ log = <<>>
  /\ acct = NewAccount(toHex(Addr1))
  /\ txn = ZeroTransaction
  /\ prices = <<>>
  /\ classifier = NoClassifier

\* an entity is saved under the id of the event (txHash, logIndex)
saveUnderGlobalId(txHash, logIndex) ==
  /\ Len(log) < MaxEvents
  /\ transactions' = Put(transactions, GlobalIdString(txHash, logIndex),
                         [txHash |-> txHash, logIndex |-> logIndex])
  /\ log' = Append(log, <<txHash, logIndex>>)
  /\ UNCHANGED <<accounts, tokens, histories, acct, txn, prices, classifier>>

IdNext == \E h \in TxHashes, i \in LogIndices : saveUnderGlobalId(h, i)

IdSpec == IdInit /\ [][IdNext]_vars

\* C28: two events get the same id exactly when they have the same
\* transaction hash and the same log index, so the store holds one record
\* per distinct event and each record is the one of its event
C28_GlobalIdIsCollisionFree ==
  /\ \A a \in 1..Len(log), b \in 1..Len(log) :
        (GlobalIdString(log[a][1], log[a][2]) = GlobalIdString(log[b][1], log[b][2]))
           <=> (log[a] = log[b])
  /\ \A a \in 1..Len(log) :
        LET id == GlobalIdString(log[a][1], log[a][2]) IN
        /\ id \in DOMAIN transactions
        /\ transactions[id] = [txHash |-> log[a][1], logIndex |-> log[a][2]]

\* two events whose hash and log index digits run together the same way:
\* hash 0x01 with log index 12 and hash 0x11 with log index 2
C28_Witness ==
  /\ log = <<<<1, 12>>, <<17, 2>>>>
  /\ Cardinality(DOMAIN transactions) = 2


(***************************************************************************)
(* SaleSpec: handleTransfer and handleOpenSeaSale of the earlier revision  *)
(* of mappings/transactions.ts, with getOrCreateAccount(accountId),        *)
(* getOrCreateTransaction(event, type), fetchTransferEvents and            *)
(* getTokenId(event, accountId).  A handler that aborts (a null receipt    *)
(* dereferenced, a BigInt division by zero) writes nothing and marks the   *)
(* subgraph failed: no later event is handled.                             *)
(***************************************************************************)
\* getOrCreateAccount(accountId: string): Account.load(accountId) with each
\* null field but totalAmountBalance replaced by zero, or a new zeroed
\* Account; neither is saved
part001_getOrCreateAccount(accs, accountId) ==
  IF accountId \in DOMAIN accs
  THEN [accs[accountId] EXCEPT
          !.activityCount = OrZero(@), !.mintCount = OrZero(@),
          !.buyCount = OrZero(@), !.saleCount = OrZero(@),
          !.totalAmountBought = OrZero(@), !.totalAmountSold = OrZero(@),
          !.blockNumber = OrZero(@), !.blockTimestamp = OrZero(@)]
  ELSE [id |-> accountId,
        activityCount |-> BIGINT_ZERO, mintCount |-> BIGINT_ZERO,
        buyCount |-> BIGINT_ZERO, saleCount |-> BIGINT_ZERO,
        totalAmountBought |-> BIGINT_ZERO, totalAmountSold |-> BIGINT_ZERO,
        totalAmountBalance |-> BIGINT_ZERO,
        blockNumber |-> BIGINT_ZERO, blockTimestamp |-> BIGINT_ZERO,
        isOG |-> FALSE, isCollector |-> FALSE, isHunter |-> FALSE,
        isFarmer |-> FALSE, isTrader |-> FALSE]

\* utils/transactionHelper.ts getOrCreateTransaction: load by the global id
\* of the event and type, or a new zeroed Transaction; neither is saved
getOrCreateTransaction(txs, event, type) ==
  LET transactionId == part002_getGlobalId(event, <<type>>) IN
  IF transactionId \in DOMAIN txs THEN txs[transactionId]
  ELSE [id |-> transactionId, transactionType |-> type,
        totalNFTsSold |-> BIGINT_ZERO, totalSalesVolume |-> BIGINT_ZERO,
        averageSalePrice |-> BIGINT_ZERO, highestSalePrice |-> BIGINT_ZERO,
        lowestSalePrice |-> BIGINT_ZERO,
        blockNumber |-> event.blockNumber,
        blockTimestamp |-> event.blockTimestamp]

\* BigInt.fromUnsignedBytes(log.data.subarray(0, 32)): zero for empty data
fromUnsignedBytes(data) == IF data = NO_DATA THEN BIGINT_ZERO ELSE data

\* the logs of a receipt whose first topic is the Transfer signature, decoded
RECURSIVE TransferLogsDecoded(_, _, _)
TransferLogsDecoded(event, logs, i) ==
  IF i > Len(logs) THEN <<>>
  ELSE LET rest == TransferLogsDecoded(event, logs, i + 1) IN
       IF logs[i].topics[1] = TRANSFER_EVENT_SIG
       THEN <<[id |-> getTransactionId(event.txHash, i - 1),
               from |-> toHex(logs[i].topics[2]),
               to |-> toHex(logs[i].topics[3]),
               owner |-> toHex(logs[i].topics[3]),
               tokenId |-> fromUnsignedBytes(logs[i].data),
               blockNumber |-> event.blockNumber, txHash |-> event.txHash,
               timestamp |-> event.blockTimestamp]>> \o rest
       ELSE rest

\* fetchTransferEvents: event.receipt!.logs aborts on a null receipt;
\* otherwise one unsaved CovenToken per Transfer-signature log
fetchTransferEvents(event) ==
  IF ~event.receipt.present
  THEN [aborted |-> TRUE, transferEvents |-> <<>>]
  ELSE [aborted |-> FALSE,
        transferEvents |-> TransferLogsDecoded(event, event.receipt.logs, 1)]

\* getTokenId(event, accountId): the id of the CovenToken stored under
\* txHash-(logIndex - 1)-accountId, UNSET for null
part003_getTokenId(toks, event, accountId) ==
  LET id == toHex(event.txHash) \o <<"-">>
              \o toString(event.logIndex - BIGINT_ONE) \o <<"-">> \o accountId
  IN IF id \in DOMAIN toks THEN toks[id].id ELSE UNSET

\* analyzeHistoricalData: the counts of the AccountHistory loaded under the
\* account id (none when there is no such record) decide the five flags of
\* the stored account, which is saved
analyzeHistoricalData(accs, hist, accountId) ==
  LET has == accountId \in DOMAIN hist
      mintCount == IF has THEN hist[accountId].mintCount ELSE BIGINT_ZERO
      buyCount == IF has THEN hist[accountId].buyCount ELSE BIGINT_ZERO
      saleCount == IF has THEN hist[accountId].saleCount ELSE BIGINT_ZERO
  IN IF accountId \notin DOMAIN accs THEN accs
     ELSE Put(accs, accountId,
              [accs[accountId] EXCEPT
                 !.isOG = mintCount > 0 /\ buyCount = 0 /\ saleCount = 0,
                 !.isCollector = (mintCount > 0 \/ buyCount > 0) /\ saleCount = 0,
                 !.isHunter = mintCount > 0 /\ buyCount = 0 /\ saleCount > 0,
                 !.isFarmer = mintCount > 0 /\ buyCount > 0 /\ saleCount > 0,
                 !.isTrader = mintCount = 0 /\ (buyCount > 0 \/ saleCount > 0)])

\* handleTransfer of the same revision: "isMint = ZERO_ADDRESS" is always
\* truthy, so every transfer takes the mint branch
transactions_handleTransferStore(st, event) ==
  LET fromAccount == part001_getOrCreateAccount(st.accounts, toHex(event.from))
      toAccount == part001_getOrCreateAccount(st.accounts, toHex(event.to))
      covenToken0 == part002_getOrCreateCovenToken(st.tokens, event,
                                                   toString(event.tokenId))
      covenToken == [covenToken0 EXCEPT !.owner = toAccount.id,
                                        !.timestamp = event.blockTimestamp,
                                        !.tokenId = event.tokenId]
      toAccount1 == [toAccount EXCEPT !.mintCount = @ + @]
      accs1 == Put(Put(st.accounts, fromAccount.id, fromAccount),
                   toAccount1.id, toAccount1)
      accs2 == analyzeHistoricalData(accs1, st.histories, fromAccount.id)
      accs3 == analyzeHistoricalData(accs2, st.histories, toAccount.id)
      transaction0 == getOrCreateTransaction(st.transactions, event, "MINT")
      transaction == [transaction0 EXCEPT !.totalNFTsSold = @ + BIGINT_ONE]
  IN [accounts |-> accs3,
      tokens |-> Put(st.tokens, covenToken.id, covenToken),
      transactions |-> Put(st.transactions, transaction.id, transaction),
      histories |-> st.histories]

\* handleOpenSeaSale: the outcome of the handler on store st.  aborted is
\* TRUE when fetchTransferEvents dereferences a null receipt or when
\* totalSaleVolume.div(transaction.totalNFTsSold) divides by zero; the
\* store is then the one before the event.
handleOpenSeaSaleOutcome(st, event) ==
  LET seller == toHex(event.maker)
      buyer == toHex(event.taker)
      salePrice == event.price
      sellerAccount == part001_getOrCreateAccount(st.accounts, seller)
      buyerAccount == part001_getOrCreateAccount(st.accounts, buyer)
      transaction == getOrCreateTransaction(st.transactions, event, "TRADE")
      fetched == fetchTransferEvents(event)
      tokenIdFromTransfer == part003_getTokenId(st.tokens, event, seller)
      \* one entry of tokenIds per transfer event when the lookup succeeds
      found == IF tokenIdFromTransfer = UNSET THEN 0
               ELSE Len(fetched.transferEvents)
      covenToken == [part002_getOrCreateCovenToken(st.tokens, event,
                                                   tokenIdFromTransfer)
                       EXCEPT !.owner = buyer]
      toks == IF found = 0 THEN st.tokens
              ELSE Put(st.tokens, covenToken.id, covenToken)
      totalNFTsSold == transaction.totalNFTsSold + found
      totalSaleVolume == found * salePrice
      highestSalePrice == IF found > 0 /\ salePrice > BIGINT_ZERO
                          THEN salePrice ELSE BIGINT_ZERO
      lowestSalePrice == IF found > 0 THEN salePrice ELSE BIGINT_ZERO
      saved == [transaction EXCEPT
                  !.totalNFTsSold = totalNFTsSold,
                  !.totalSalesVolume = totalSaleVolume,
                  !.averageSalePrice = totalSaleVolume \div totalNFTsSold,
                  !.highestSalePrice = highestSalePrice,
                  !.lowestSalePrice = lowestSalePrice]
      sellerAccount1 == [sellerAccount EXCEPT
                           !.totalAmountSold = @ + totalSaleVolume,
                           !.activityCount = @ + totalNFTsSold]
      buyerAccount1 == [buyerAccount EXCEPT
                          !.totalAmountBought = @ + totalSaleVolume,
                          !.activityCount = @ + totalNFTsSold]
      accs1 == Put(Put(st.accounts, sellerAccount1.id, sellerAccount1),
                   buyerAccount1.id, buyerAccount1)
      accs2 == analyzeHistoricalData(accs1, st.histories, sellerAccount1.id)
      accs3 == analyzeHistoricalData(accs2, st.histories, buyerAccount1.id)
  IN IF fetched.aborted \/ totalNFTsSold = BIGINT_ZERO
     THEN [aborted |-> TRUE, store |-> st]
     ELSE [aborted |-> FALSE,
           store |-> [accounts |-> accs3, tokens |-> toks,
                      transactions |-> Put(st.transactions, saved.id, saved),
                      histories |-> st.histories]]

\* the outcome of handling the event of key k on store st
SaleHandleEvent(st, k) ==
  IF IsTransferKey(k)
  THEN [aborted |-> FALSE,
        store |-> transactions_handleTransferStore(st, TransferEvent(k))]
  ELSE handleOpenSeaSaleOutcome(st, OrdersMatchedEvent(k))

\* the outcome of delivering the events of seq in order, from empty: once a
\* handler has aborted the subgraph has failed and handles nothing more
RECURSIVE SaleReplay(_)
SaleReplay(seq) ==
  IF seq = <<>> THEN [aborted |-> FALSE, store |-> EmptyStore]
  ELSE LET before == SaleReplay(Front(seq)) IN
       IF before.aborted THEN before
       ELSE SaleHandleEvent(before.store, Last(seq))

SubgraphFailed == SaleReplay(log).aborted

SaleInit ==
  /\ accounts = EmptyMap
  /\ tokens = EmptyMap
  /\ transactions = EmptyMap
  /\ histories = EmptyMap
  /\ log = <<>>
  /\ acct = NewAccount(toHex(Addr1))
  /\ txn = ZeroTransaction
  /\ prices = <<>>
  /\ classifier = NoClassifier

transactions_handleTransfer(k) ==
  /\ Len(log) < MaxEvents
  /\ ~SubgraphFailed
  /\ IsTransferKey(k)
  /\ LET st == transactions_handleTransferStore(Store, TransferEvent(k)) IN
       /\ accounts' = st.accounts
       /\ tokens' = st.tokens
       /\ transactions' = st.transactions
       /\ histories' = st.histories
  /\ log' = Append(log, k)
  /\ UNCHANGED <<acct, txn, prices, classifier>>

handleOpenSeaSale(k) ==
  /\ Len(log) < MaxEvents
  /\ ~SubgraphFailed
  /\ IsOrdersMatchedKey(k)
  /\ LET st == handleOpenSeaSaleOutcome(Store, OrdersMatchedEvent(k)).store IN
       /\ accounts' = st.accounts
       /\ tokens' = st.tokens
       /\ transactions' = st.transactions
       /\ histories' = st.histories
  /\ log' = Append(log, k)
  /\ UNCHANGED <<acct, txn, prices, classifier>>

SaleNext ==
  \/ \E k \in EventKeys : transactions_handleTransfer(k)
  \/ \E k \in EventKeys : handleOpenSeaSale(k)

SaleSpec == SaleInit /\ [][SaleNext]_vars

\* C29: no event aborts processing: every OrdersMatched event that was
\* delivered, also one without a receipt or without a recoverable token id,
\* was handled to completion, and the subgraph has not failed.
C29_NoEventAborts == ~SubgraphFailed


AggregateFields ==
  {"totalSalesVolume", "totalSalesCount", "highestSalePrice", "totalNFTsSold"}

\* C30: loading a Transaction that already exists for an event's
\* (txHash, logIndex) preserves its accumulated aggregates: the record the
\* create-or-load helper leaves in the store for an OrdersMatched event whose
\* Transaction is already stored has no aggregate below the stored one.
C30_LoadPreservesAggregates ==
  \A k \in EventKeys :
     IsOrdersMatchedKey(k) =>
       LET event == OrdersMatchedEvent(k)
           id == getTransactionId(event.txHash, event.logIndex)
       IN id \in DOMAIN transactions =>
            \A f \in AggregateFields :
               createOrUpdateTransaction(transactions, event).transactions[id][f]
                 >= transactions[id][f]


(***************************************************************************)
(* ReceiptSpec: processTransactionReceipt of helpers/transactionHelper.ts  *)
(* applied to events whose receipts hold up to MaxLogs logs.  log holds    *)
(* the last event scanned and what the function returned for it.           *)
(***************************************************************************)
MaxLogs == 7

\* a receipt of n logs with consecutive log indices from base; the log at
\* position q carries the OrdersMatched signature (none when q = 0), every
\* other log is a Transfer
ScanLogs(n, q, base) ==
  [p \in 1..n |->
     IF p = q THEN OrdersMatchedLog(base + p - 1, Addr1, Addr2, 1)
     ELSE TransferLog(base + p - 1, Addr1, Addr2, Token1)]

\* the event with log index logIndex delivered with that receipt, or with
\* none
ScanEvent(n, q, base, logIndex, present) ==
  [logIndex |-> logIndex, txHash |-> 1,
   receipt |-> IF present THEN [present |-> TRUE, logs |-> ScanLogs(n, q, base)]
               ELSE NoReceipt]

\* processTransactionReceipt reading the log right after the event's own
processTransactionReceipt_NextLog(event) ==
  IF ~event.receipt.present THEN [value |-> FALSE, read |-> {}]
  ELSE LET logs == event.receipt.logs
           foundIndex == FoundIndex(logs, event.logIndex)
           scanned == IF foundIndex >= 1 THEN 1..foundIndex ELSE 1..Len(logs)
       IN IF foundIndex >= 1 /\ foundIndex + 1 <= Len(logs)
          THEN [value |-> logs[foundIndex + 1].topics[1] = ORDERS_MATCHED_EVENT_SIG,
                read |-> scanned \cup {foundIndex + 1}]
          ELSE [value |-> FALSE, read |-> scanned]

\* processTransactionReceipt: value is the boolean returned, read the
\* positions of the log list the call has read (the loop up to the event's
\* own log, then the log five positions further when the guard admits it)
processTransactionReceipt(event) ==
  IF ~event.receipt.present THEN [value |-> FALSE, read |-> {}]
  ELSE LET logs == event.receipt.logs
           foundIndex == FoundIndex(logs, event.logIndex)
           scanned == IF foundIndex >= 1 THEN 1..foundIndex ELSE 1..Len(logs)
       IN IF foundIndex >= 1 /\ foundIndex + 5 <= Len(logs)
          THEN [value |-> logs[foundIndex + 5].topics[1] = ORDERS_MATCHED_EVENT_SIG,
                read |-> scanned \cup {foundIndex + 5}]
          ELSE [value |-> FALSE, read |-> scanned]

ReceiptInit ==
  /\ accounts = EmptyMap
  /\ tokens = EmptyMap
  /\ transactions = EmptyMap
  /\ histories = EmptyMap
  /\ log = <<>>
  /\ acct = NewAccount(toHex(Addr1))
  /\ txn = ZeroTransaction
  /\ prices = <<>>
  /\ classifier = NoClassifier

scanReceipt(event) ==
  /\ log' = <<[event |-> event, returned |-> processTransactionReceipt(event)]>>
  /\ UNCHANGED <<accounts, tokens, transactions, histories, acct, txn, prices,
                 classifier>>

ReceiptNext ==
  \E n \in 0..MaxLogs, base \in {0, 2}, present \in BOOLEAN :
    \E q \in 0..n, logIndex \in 0..(MaxLogs + 2) :
       scanReceipt(ScanEvent(n, q, base, logIndex, present))

ReceiptSpec == ReceiptInit /\ [][ReceiptNext]_vars

\* the event's own log is at position i of its receipt and the log five
\* positions further carries the OrdersMatched signature
OrdersMatchedFiveAfter(event) ==
  /\ event.receipt.present
  /\ \E i \in 1..Len(event.receipt.logs) :
        /\ event.receipt.logs[i].logIndex = event.logIndex
        /\ i + 5 <= Len(event.receipt.logs)
        /\ event.receipt.logs[i + 5].topics[1] = ORDERS_MATCHED_EVENT_SIG

TransfersJustBefore(seq, k) ==
  {i \in 1..Len(seq) :
     /\ IsTransferKey(seq[i])
     /\ seq[i][1] = k[1]
     /\ TransferEvent(seq[i]).logIndex = OrdersMatchedEvent(k).logIndex - 1}

\* C32: store-based token-id recovery depends on order.  For the
\* OrdersMatched event handled last, getTokenId against the store before it
\* returns the token id of the Transfer of the same transaction at the
\* previous log index when that Transfer was handled earlier, and null
\* otherwise; when it is null createOrdersMatched changes no Account and no
\* Transaction.
C32_RecoveryDependsOnOrder ==
  (log # <<>> /\ IsOrdersMatchedKey(Last(log))) =>
     LET before == UtilsStoreAfter(Front(log))
         event == OrdersMatchedEvent(Last(log))
         earlier == TransfersJustBefore(Front(log), Last(log))
         tokenId == getTokenId(before.tokens, event)
     IN /\ earlier # {} =>
             \A i \in earlier : tokenId = TransferEvent(log[i]).tokenId
        /\ earlier = {} => tokenId = UNSET
        /\ tokenId = UNSET =>
             /\ accounts = before.accounts
             /\ transactions = before.transactions

\* the OrdersMatched of transaction 3 handled before the Transfer at the
\* previous log index, after the mint of transaction 1 has filled the store
C32_Witness ==
  /\ Len(log) = 2
  /\ log[1][1] = 1
  /\ log[2][1] = 3 /\ IsOrdersMatchedKey(log[2])
  /\ accounts # EmptyMap
  /\ getTokenId(tokens, OrdersMatchedEvent(log[2])) = UNSET


\* extractTokenId(event, tokenContract): the log just before the event's own
\* is consulted (target, 0 when the function returns before reading one);
\* the token id is decoded from its data when it is a Transfer of the token
\* contract, UNSET for null
extractTokenId(event, tokenContract) ==
  IF ~event.receipt.present \/ Len(event.receipt.logs) = 0
  THEN [tokenId |-> UNSET, target |-> 0]
  ELSE LET logs == event.receipt.logs
           targetLogIndex == FoundIndex(logs, event.logIndex) - 1
       IN IF targetLogIndex < 1 THEN [tokenId |-> UNSET, target |-> 0]
          ELSE [tokenId |->
                  IF /\ logs[targetLogIndex].topics[1] = TRANSFER_EVENT_SIG
                     /\ logs[targetLogIndex].address = tokenContract
                  THEN decodeUint256(logs[targetLogIndex].data)
                  ELSE UNSET,
                target |-> targetLogIndex]

\* getTokenIdFromReceipt(event): the log just before the event's own is
\* consulted and decoded when its first topic is the OrdersMatched signature
getTokenIdFromReceipt(event) ==
  IF ~event.receipt.present THEN [tokenId |-> UNSET, target |-> 0]
  ELSE LET logs == event.receipt.logs
           foundIndex == FoundIndex(logs, event.logIndex)
       IN IF foundIndex < 2 THEN [tokenId |-> UNSET, target |-> 0]
          ELSE [tokenId |->
                  IF logs[foundIndex - 1].topics[1] = ORDERS_MATCHED_EVENT_SIG
                  THEN decodeUint256(logs[foundIndex - 1].data)
                  ELSE UNSET,
                target |-> foundIndex - 1]

\* the event of the log at position p of the receipt of event
EventAt(event, p) ==
  [event EXCEPT !.logIndex = event.receipt.logs[p].logIndex]

\* the Transfer at position i is classified TRADE because of the log at j
TradeBecauseOf(event, i, j) ==
  /\ processTransactionReceipt(EventAt(event, i)).value
  /\ j > i
  /\ j \in processTransactionReceipt(EventAt(event, i)).read

\* C33: correlation is chosen consistently in both directions: in the
\* receipt scanned, a Transfer at position i is classified TRADE because of
\* the OrdersMatched log at position j if and only if the OrdersMatched
\* handler processing that log consults position i and recovers the
\* Transfer's token id from it.
C33_CorrelationIsConsistent ==
  \A s \in 1..Len(log) :
     LET event == log[s].event
         logs == event.receipt.logs
     IN \A i \in 1..Len(logs), j \in 1..Len(logs) :
          (/\ logs[i].topics[1] = TRANSFER_EVENT_SIG
           /\ logs[j].topics[1] = ORDERS_MATCHED_EVENT_SIG) =>
            /\ TradeBecauseOf(event, i, j) <=>
                 /\ extractTokenId(EventAt(event, j), CRYPTOCOVEN_ADDRESS).target = i
                 /\ extractTokenId(EventAt(event, j), CRYPTOCOVEN_ADDRESS).tokenId
                      = logs[i].topics[4]
            /\ TradeBecauseOf(event, i, j) <=>
                 /\ getTokenIdFromReceipt(EventAt(event, j)).target = i
                 /\ getTokenIdFromReceipt(EventAt(event, j)).tokenId
                      = logs[i].topics[4]


\* the positions of transaction h whose log carries the Transfer signature
TransferSignaturePositions(h) ==
  {p \in 1..Len(Chain[h]) : Chain[h][p].topics[1] = TRANSFER_EVENT_SIG}

\* C34: for the OrdersMatched event handled last, extractTokenIdFromLogs
\* returns null when the event has no receipt or no log carries the Transfer
\* signature; otherwise the first Transfer-signature log in list order was
\* emitted by the NFT contract and the function returns its token id.
C34_TokenIdOfFirstTransferLog ==
  (log # <<>> /\ IsOrdersMatchedKey(Last(log))) =>
     LET k == Last(log)
         tokenId == extractTokenIdFromLogs(OrdersMatchedEvent(k))
         positions == TransferSignaturePositions(k[1])
     IN IF ~k[3] \/ positions = {} THEN tokenId = UNSET
        ELSE LET first == CHOOSE p \in positions : \A q \in positions : p <= q
             IN /\ Chain[k[1]][first].address = CRYPTOCOVEN_ADDRESS
                /\ tokenId = Chain[k[1]][first].topics[4]


\* the last event handled is an OrdersMatched whose maker is its taker
LastIsSelfTrade ==
  /\ log # <<>>
  /\ IsOrdersMatchedKey(Last(log))
  /\ OrdersMatchedEvent(Last(log)).maker = OrdersMatchedEvent(Last(log)).taker

\* C35: when maker and taker of an OrdersMatched are the same address no
\* update is lost: the stored account reflects the increments applied for
\* both roles, one sale and one transaction as the buyer and one sale and
\* one transaction as the seller.
C35_NoLostUpdate ==
  LastIsSelfTrade =>
     LET a == OrdersMatchedEvent(Last(log)).maker
         before == StoreAfter(Front(log))
     IN /\ Counter(Store, a, "transactionCount")
             = Counter(before, a, "transactionCount") + 2
        /\ Counter(Store, a, "saleCount") = Counter(before, a, "saleCount") + 2


\* the ids of the records the event of key k may change: the accounts of
\* its two parties, the tokens transferred by the NFT contract in its trade
\* (its own token for a Transfer), the Transaction at its hash and log index
PartiesOf(k) ==
  IF IsTransferKey(k)
  THEN {toHex(TransferEvent(k).from), toHex(TransferEvent(k).to)}
  ELSE {toHex(OrdersMatchedEvent(k).maker), toHex(OrdersMatchedEvent(k).taker)}

TokenIdsOf(k) ==
  IF IsTransferKey(k) THEN {toHex(TransferEvent(k).tokenId)}
  ELSE {toHex(Chain[k[1]][p].topics[4]) : p \in TransferPositions(k[1])}

TransactionIdOf(k) == getTransactionId(k[1], Chain[k[1]][k[2]].logIndex)

\* the records of map after that are not those of map before, new ones
\* included
ChangedIds(before, after) ==
  {id \in DOMAIN after : id \notin DOMAIN before \/ after[id] # before[id]}
    \cup (DOMAIN before \ DOMAIN after)

\* C36: handling one event changes only the Account records of the event's
\* two parties, the Token record of the event's token id and the Transaction
\* at the event's (txHash, logIndex); every other Account, Token and
\* Transaction record is unchanged.
C36_FrameOfOneEvent ==
  log # <<>> =>
     LET before == StoreAfter(Front(log))
         k == Last(log)
     IN /\ ChangedIds(before.accounts, accounts) \subseteq PartiesOf(k)
        /\ ChangedIds(before.tokens, tokens) \subseteq TokenIdsOf(k)
        /\ ChangedIds(before.transactions, transactions) \subseteq {TransactionIdOf(k)}


(***************************************************************************)
(* PriceSpec: the price helpers of helpers/utils.ts over a growing list of *)
(* sale prices.  txn holds what the helpers return for the list in prices  *)
(* and for the last (volume, count) pair averaged.                         *)
(***************************************************************************)
\* the loop of calculateHighestSalePrice from position i with highestPrice
RECURSIVE HighestFrom(_, _, _)
HighestFrom(salePrices, i, highestPrice) ==
  IF i > Len(salePrices) THEN highestPrice
  ELSE HighestFrom(salePrices, i + 1,
                   IF salePrices[i] > highestPrice THEN salePrices[i]
                   ELSE highestPrice)

\* the loop of calculateLowestSalePrice from position i with lowestPrice
RECURSIVE LowestFrom(_, _, _)
LowestFrom(salePrices, i, lowestPrice) ==
  IF i > Len(salePrices) THEN lowestPrice
  ELSE LowestFrom(salePrices, i + 1,
                  IF salePrices[i] < lowestPrice THEN salePrices[i]
                  ELSE lowestPrice)

\* calculateHighestSalePrice(salePrices: BigInt[]): zero for the empty list,
\* otherwise the loop started from zero
utils_calculateHighestSalePrice(salePrices) ==
  IF Len(salePrices) = 0 THEN BIGINT_ZERO
  ELSE HighestFrom(salePrices, 1, BIGINT_ZERO)

\* calculateLowestSalePrice with the loop started from zero
utils_calculateLowestSalePrice_FromZero(salePrices) ==
  IF Len(salePrices) = 0 THEN BIGINT_ZERO
  ELSE LowestFrom(salePrices, 1, BIGINT_ZERO)

\* calculateLowestSalePrice(salePrices: BigInt[]): zero for the empty list,
\* otherwise the loop started from the first price
utils_calculateLowestSalePrice(salePrices) ==
  IF Len(salePrices) = 0 THEN BIGINT_ZERO
  ELSE LowestFrom(salePrices, 2, salePrices[1])

SaleVolumes == {0, 10, 25}

PriceInit ==
  /\ accounts = EmptyMap
  /\ tokens = EmptyMap
  /\ transactions = EmptyMap
  /\ histories = EmptyMap
  /\ log = <<>>
  /\ acct = NewAccount(toHex(Addr1))
  /\ txn = [highestSalePrice |-> utils_calculateHighestSalePrice(<<>>),
            lowestSalePrice |-> utils_calculateLowestSalePrice(<<>>),
            totalSalesVolume |-> BIGINT_ZERO, totalSalesCount |-> BIGINT_ZERO,
            averageSalePrice |-> calculateAverageSalePrice(BIGINT_ZERO, BIGINT_ZERO)]
  /\ prices = <<>>
  /\ classifier = NoClassifier

\* one more sale price, and the helpers applied to the longer list
recordSalePrice(salePrice) ==
  /\ Len(prices) < MaxSales
  /\ prices' = Append(prices, salePrice)
  /\ txn' = [txn EXCEPT
               !.highestSalePrice = utils_calculateHighestSalePrice(prices'),
               !.lowestSalePrice = utils_calculateLowestSalePrice(prices')]
  /\ UNCHANGED <<storeVars, acct, classifier>>

\* calculateAverageSalePrice applied to a volume and a count
averageSalePrice(totalSalesVolume, totalSalesCount) ==
  /\ txn' = [txn EXCEPT
               !.totalSalesVolume = totalSalesVolume,
               !.totalSalesCount = totalSalesCount,
               !.averageSalePrice =
                  calculateAverageSalePrice(totalSalesVolume, totalSalesCount)]
  /\ UNCHANGED <<storeVars, acct, prices, classifier>>

PriceNext ==
  \/ \E p \in SalePrices : recordSalePrice(p)
  \/ \E v \in SaleVolumes, c \in 0..2 : averageSalePrice(v, c)

PriceSpec == PriceInit /\ [][PriceNext]_vars

\* C37: calculateHighestSalePrice returns the maximum of the list of sale
\* prices and calculateLowestSalePrice its minimum, both 0 for the empty
\* list; calculateAverageSalePrice returns 0 when the count is 0 and the
\* quotient volume / count otherwise.
C37_HighestLowestAverage ==
  /\ txn.highestSalePrice = IF prices = <<>> THEN 0 ELSE MaxOf(prices)
  /\ txn.lowestSalePrice = IF prices = <<>> THEN 0 ELSE MinOf(prices)
  /\ IF txn.totalSalesCount = 0 THEN txn.averageSalePrice = <<0, 1>>
     ELSE /\ txn.averageSalePrice[2] > 0
          /\ txn.averageSalePrice[1] * txn.totalSalesCount
               = txn.totalSalesVolume * txn.averageSalePrice[2]

\* three prices whose minimum is neither the first nor zero, and a volume
\* that the count does not divide
C37_Witness ==
  /\ prices = <<20, 10, 30>>
  /\ txn.lowestSalePrice = 10
  /\ txn.highestSalePrice = 30
  /\ txn.totalSalesVolume = 25 /\ txn.totalSalesCount = 2


====
